---- MODULE Spec2Model ----
(***************************************************************************)
(* Greppy: finding identity and suppression.                               *)
(*                                                                         *)
(* The model covers IdService (persistent ids, fuzzy re-matching),         *)
(* DecoratorService (ignored-finding collections, store files, filtering), *)
(* the part of GrepResultsProvider / the runAnalysis command that feeds    *)
(* findings to them, and GrepService (pattern runs, output parsers,        *)
(* context windows).                                                       *)
(*                                                                         *)
(* Strings are sequences of one-character strings, so that substring,      *)
(* endsWith, basename and the edit distance are computed, not assumed.     *)
(* Paths are POSIX paths.  A SHA-256 digest is represented by the string   *)
(* that was hashed (equal digests <=> equal hashed strings).               *)
(***************************************************************************)
EXTENDS Integers, Sequences, FiniteSets, TLC

VARIABLES
  results,                     \* GrepResultsProvider.results
  findingsByFilePath,          \* DecoratorService.findingsByFilePath
  ignoredFindings,             \* DecoratorService.ignoredFindings (session ids)
  ignoredFindingObjects,       \* DecoratorService.ignoredFindingObjects
  ignoredFindingsByWorkspace,  \* DecoratorService.ignoredFindingsByWorkspace
  storeFile,                   \* <workspace>/.greppy/ignored.json on disk
  nextId,                      \* number of session ids (uuidv4) handed out so far
  lastOp,                      \* the handler that ran last, with its arguments
  mFinding, mIgnored, mResult, \* one call of findMatchingIgnoredFinding
  sStr1, sStr2, sResult,       \* one call of calculateStringSimilarity
  run,                         \* the greppy.runAnalysis command in flight
  picker,                      \* the quick pick of the ignored-findings manager
  acknowledged,                \* records ignored and not un-ignored since start
  rPatterns, rToolCheck, rResult, \* one call of GrepService.runAnalysis
  call, returned,              \* one call of another function, and its result
  asyncCalls,                  \* the calls of async methods started so far
  tree                         \* the severity filters and the welcome flag of
                               \* GrepResultsProvider

vars == <<results, findingsByFilePath, ignoredFindings, ignoredFindingObjects,
          ignoredFindingsByWorkspace, storeFile, nextId, lastOp,
          mFinding, mIgnored, mResult, sStr1, sStr2, sResult,
          run, picker, acknowledged, rPatterns, rToolCheck, rResult,
          call, returned, asyncCalls, tree>>

sysVars == <<results, findingsByFilePath, ignoredFindings, ignoredFindingObjects,
             ignoredFindingsByWorkspace, storeFile, nextId, lastOp>>

matchVars == <<mFinding, mIgnored, mResult>>

simVars == <<sStr1, sStr2, sResult>>

asyncVars == <<run, picker>>

runVars == <<rPatterns, rToolCheck, rResult>>

callVars == <<call, returned>>

uiVars == <<asyncCalls, tree>>

(***************************************************************************)
(* Bounds                                                                  *)
(***************************************************************************)
\* session ids handed out over a run of the model
MaxIds == 3
\* findings one scan can return
MaxFindings == 2
\* records the in-memory suppression list can hold
MaxIgnored == 2
\* records in the list handed to one matcher call
MaxRecords == 2
\* length of the strings handed to calculateStringSimilarity
MaxLen == 3
\* patterns handed to one call of runAnalysis
MaxPatterns == 2
\* C/C++ files the listing of a workspace prints
MaxFiles == 2
\* characters of a ripgrep output handed to the parser
MaxOutput == 6
\* blocks of a weggli output handed to the parser
MaxBlocks == 2
\* calls of async methods followed at once
MaxCalls == 3
\* the longest file name and matched text of the findings whose identity
\* strings are compared
MaxIdLen == 2
\* characters of the file a context is read from
MaxFileLen == 9

(***************************************************************************)
(* Program constants                                                       *)
(***************************************************************************)
\* Math.abs(ignored.lineNumber - finding.lineNumber) > 15
LineRange == 15
\* similarity > 0.7, as the fraction ThresholdNum / ThresholdDen
ThresholdNum == 7
ThresholdDen == 10
\* IdService.CONTEXT_LINES
ContextLines == 3

\* an absent optional string or object (undefined)
Undefined == <<>>
\* an absent id: the result "undefined" of findMatchingIgnoredFinding;
\* session ids are the numbers 1, 2, ...
UndefinedId == 0

(***************************************************************************)
(* Strings                                                                 *)
(***************************************************************************)
StartsWith(s, prefix) ==
  /\ Len(s) >= Len(prefix)
  /\ SubSeq(s, 1, Len(prefix)) = prefix

EndsWith(s, suffix) ==
  /\ Len(s) >= Len(suffix)
  /\ SubSeq(s, Len(s) - Len(suffix) + 1, Len(s)) = suffix

Substring(s, start) == SubSeq(s, start + 1, Len(s))

Max(a, b) == IF a >= b THEN a ELSE b

Min(a, b) == IF a <= b THEN a ELSE b

Abs(a) == IF a >= 0 THEN a ELSE 0 - a

\* path.basename (posix): trailing separators are dropped, then the part
\* after the last separator is returned
RECURSIVE StripTrailingSlashes(_)
StripTrailingSlashes(p) ==
  IF Len(p) > 1 /\ p[Len(p)] = "/"
  THEN StripTrailingSlashes(SubSeq(p, 1, Len(p) - 1))
  ELSE p

Basename(p) ==
  LET q     == StripTrailingSlashes(p)
      slash == {i \in 1..Len(q) : q[i] = "/"}
      last  == IF slash = {} THEN 0 ELSE CHOOSE i \in slash : \A j \in slash : j <= i
  IN IF q = <<"/">> THEN <<>> ELSE SubSeq(q, last + 1, Len(q))

(***************************************************************************)
(* Workspace                                                               *)
(***************************************************************************)
WsW == <<"/", "w">>
WsV == <<"/", "v">>

\* vscode.workspace.workspaceFolders, in order
WorkspaceFolderList == <<WsW, WsV>>

WorkspaceFolders == {WorkspaceFolderList[i] : i \in 1..Len(WorkspaceFolderList)}

\* vscode.workspace.getWorkspaceFolder(uri): the folder that contains the
\* path (the innermost one), or undefined
GetWorkspaceFolder(filePath) ==
  LET holding == {w \in WorkspaceFolders :
                    filePath = w \/ StartsWith(filePath, w \o <<"/">>)}
  IN IF holding = {} THEN Undefined
     ELSE CHOOSE w \in holding : \A x \in holding : Len(x) <= Len(w)

\* variant: the path is returned as it is
GetRelativeFilePath_Absolute(filePath) == filePath

GetRelativeFilePath(filePath) ==
  LET workspaceFolder == GetWorkspaceFolder(filePath)
  IN IF workspaceFolder # Undefined
     THEN Substring(filePath, Len(workspaceFolder))
     ELSE filePath

(***************************************************************************)
(* IdService                                                               *)
(***************************************************************************)
\* crypto.createHash("sha256").update(s).digest("hex").substring(0, 24)
Sha256Hex24(s) == <<"sha256/24", s>>

\* variant: the session id is part of the hashed string
IdString_WithId(finding) ==
  <<ToString(finding.id), ":">> \o finding.patternName \o <<":">>
    \o GetRelativeFilePath(finding.filePath) \o <<":">> \o finding.matchedContent

IdString(finding) ==
  finding.patternName \o <<":">> \o GetRelativeFilePath(finding.filePath)
    \o <<":">> \o finding.matchedContent

\* variant: the line number is hashed too
GeneratePersistentId_WithLine(finding) ==
  Sha256Hex24(IdString(finding) \o <<":", ToString(finding.lineNumber)>>)

GeneratePersistentId(finding) == Sha256Hex24(IdString(finding))

\* enhanceFinding: the context window is not part of the identity and is
\* left out; the persistent id is (re)computed from the finding
EnhanceFinding(finding) ==
  [finding EXCEPT !.persistentId = GeneratePersistentId(finding)]

Min3(a, b, c) == Min(a, Min(b, c))

\* variant: the insertion term is missing from the minimum
RECURSIVE FillRow_NoInsertion(_, _, _, _)
FillRow_NoInsertion(prev, row, ch, str2) ==
  IF Len(row) > Len(str2) THEN row
  ELSE LET j    == Len(row)
           cost == IF ch = str2[j] THEN 0 ELSE 1
           cell == Min(prev[j + 1] + 1, prev[j] + cost)
       IN FillRow_NoInsertion(prev, Append(row, cell), ch, str2)

\* Row i of the matrix d, filled left to right from row i-1 (prev).  A row
\* is the sequence d[i][0], ..., d[i][n]; the next column to fill is
\* j = Len(row).
RECURSIVE FillRow(_, _, _, _)
FillRow(prev, row, ch, str2) ==
  IF Len(row) > Len(str2) THEN row
  ELSE LET j    == Len(row)
           cost == IF ch = str2[j] THEN 0 ELSE 1
           cell == Min3(prev[j + 1] + 1,      \* deletion
                        row[j] + 1,           \* insertion
                        prev[j] + cost)       \* substitution
       IN FillRow(prev, Append(row, cell), ch, str2)

\* The matrix d as the sequence of its rows 0..m; the next row to fill is
\* i = Len(d), and it starts with d[i][0] = i.
RECURSIVE FillMatrix(_, _, _)
FillMatrix(d, str1, str2) ==
  IF Len(d) > Len(str1) THEN d
  ELSE LET i == Len(d)
       IN FillMatrix(Append(d, FillRow(d[i], <<i>>, str1[i], str2)), str1, str2)

\* d[m][n]
LevenshteinDistance(str1, str2) ==
  LET firstRow == [j \in 1..(Len(str2) + 1) |-> j - 1]
      d == FillMatrix(<<firstRow>>, str1, str2)
  IN d[Len(str1) + 1][Len(str2) + 1]

\* variant: the distance is normalised by the sum of the lengths
CalculateStringSimilarity_BySum(str1, str2) ==
  LET m == Len(str1)
      n == Len(str2)
  IN IF m = 0 \/ n = 0 THEN <<0, 1>>
     ELSE <<m + n - LevenshteinDistance(str1, str2), m + n>>

\* variant: equal strings are given similarity 1 before the empty test
CalculateStringSimilarity_EqualFirst(str1, str2) ==
  LET m == Len(str1)
      n == Len(str2)
      maxLength == Max(m, n)
  IN IF str1 = str2 THEN <<1, 1>>
     ELSE IF m = 0 \/ n = 0 THEN <<0, 1>>
     ELSE <<maxLength - LevenshteinDistance(str1, str2), maxLength>>

\* The similarity 1 - d/maxLength as the exact fraction <<num, den>>.  For
\* lengths below 40 the IEEE double the code computes compares with 0.7
\* exactly as this fraction compares with 7/10.
CalculateStringSimilarity(str1, str2) ==
  LET m == Len(str1)
      n == Len(str2)
      maxLength == Max(m, n)
  IN IF m = 0 \/ n = 0 THEN <<0, 1>>
     ELSE <<maxLength - LevenshteinDistance(str1, str2), maxLength>>

\* similarity > 0.7
AboveThreshold(similarity) ==
  similarity[1] * ThresholdDen > ThresholdNum * similarity[2]

\* variant: the separator is missing in front of the basename
SamePathOrMoved_NoSeparator(ignored, finding) ==
  LET relativePath == GetRelativeFilePath(finding.filePath)
      ignoredRelativePath == GetRelativeFilePath(ignored.filePath)
  IN \/ ignoredRelativePath = relativePath
     \/ EndsWith(ignoredRelativePath, Basename(relativePath))

\* the path test of the fuzzy filter
SamePathOrMoved(ignored, finding) ==
  LET relativePath == GetRelativeFilePath(finding.filePath)
      ignoredRelativePath == GetRelativeFilePath(ignored.filePath)
  IN \/ ignoredRelativePath = relativePath
     \/ EndsWith(ignoredRelativePath, <<"/">> \o Basename(relativePath))

\* variant: a distance of exactly LineRange is rejected
WithinLineRange_Exclusive(ignored, finding) ==
  ~ (Abs(ignored.lineNumber - finding.lineNumber) >= LineRange)

\* the line test of the fuzzy filter
WithinLineRange(ignored, finding) ==
  ~ (Abs(ignored.lineNumber - finding.lineNumber) > LineRange)

\* the callback of ignoredFindings.filter(...)
IsSimilarFinding(ignored, finding) ==
  /\ ignored.patternName = finding.patternName
  /\ SamePathOrMoved(ignored, finding)
  /\ WithinLineRange(ignored, finding)
  /\ AboveThreshold(CalculateStringSimilarity(ignored.matchedContent,
                                              finding.matchedContent))

\* variant: the exact tier also asks for the line of the record
ExactMatches_SameLine(finding, ignoredList) ==
  LET hits == {i \in 1..Len(ignoredList) :
                 /\ ignoredList[i].persistentId = finding.persistentId
                 /\ ignoredList[i].lineNumber = finding.lineNumber}
      Nth[k \in 0..Cardinality(hits)] ==
        IF k = 0 THEN 0 ELSE CHOOSE i \in hits : i > Nth[k - 1] /\ \A j \in hits : j > Nth[k - 1] => i <= j
  IN [k \in 1..Cardinality(hits) |-> ignoredList[Nth[k]]]

\* ignoredFindings.find(ignored => ignored.persistentId === finding.persistentId):
\* the records with the finding's persistent id, in list order
ExactMatches(finding, ignoredList) ==
  LET hits == {i \in 1..Len(ignoredList) :
                 ignoredList[i].persistentId = finding.persistentId}
      Nth[k \in 0..Cardinality(hits)] ==
        IF k = 0 THEN 0 ELSE CHOOSE i \in hits : i > Nth[k - 1] /\ \A j \in hits : j > Nth[k - 1] => i <= j
  IN [k \in 1..Cardinality(hits) |-> ignoredList[Nth[k]]]

\* ignoredFindings.filter(...): the similar records, in list order
SimilarFindings(finding, ignoredList) ==
  LET hits == {i \in 1..Len(ignoredList) : IsSimilarFinding(ignoredList[i], finding)}
      Nth[k \in 0..Cardinality(hits)] ==
        IF k = 0 THEN 0 ELSE CHOOSE i \in hits : i > Nth[k - 1] /\ \A j \in hits : j > Nth[k - 1] => i <= j
  IN [k \in 1..Cardinality(hits) |-> ignoredList[Nth[k]]]

\* variant: the fuzzy filter is consulted before the persistent ids
FindMatchingIgnoredFinding_FuzzyFirst(finding, ignoredList) ==
  IF SimilarFindings(finding, ignoredList) # <<>>
  THEN SimilarFindings(finding, ignoredList)[1].id
  ELSE IF finding.persistentId # Undefined /\ ExactMatches(finding, ignoredList) # <<>>
       THEN ExactMatches(finding, ignoredList)[1].id
       ELSE UndefinedId

\* variant: the most similar of the similar records is returned
FindMatchingIgnoredFinding_BestFit(finding, ignoredList) ==
  LET similar == SimilarFindings(finding, ignoredList)
      Distance(k) == LevenshteinDistance(similar[k].matchedContent,
                                         finding.matchedContent)
      best == CHOOSE k \in 1..Len(similar) :
                \A j \in 1..Len(similar) :
                  Distance(k) < Distance(j) \/ (Distance(k) = Distance(j) /\ k <= j)
  IN IF finding.persistentId # Undefined /\ ExactMatches(finding, ignoredList) # <<>>
     THEN ExactMatches(finding, ignoredList)[1].id
     ELSE IF similar # <<>> THEN similar[best].id ELSE UndefinedId

\* returns the id of the matching record, or UndefinedId
FindMatchingIgnoredFinding(finding, ignoredList) ==
  IF finding.persistentId # Undefined /\ ExactMatches(finding, ignoredList) # <<>>
  THEN ExactMatches(finding, ignoredList)[1].id
  ELSE IF SimilarFindings(finding, ignoredList) # <<>>
       THEN SimilarFindings(finding, ignoredList)[1].id
       ELSE UndefinedId

(***************************************************************************)
(* Maps and lists                                                          *)
(***************************************************************************)
\* Map.get / Map.has / Map.set on a function whose domain is the key set
MapHas(map, key) == key \in DOMAIN map

MapSet(map, key, value) ==
  [k \in (DOMAIN map) \cup {key} |-> IF k = key THEN value ELSE map[k]]

MapDelete(map, key) == [k \in (DOMAIN map) \ {key} |-> map[k]]

EmptyMap == [k \in {} |-> <<>>]

\* array.filter(test) for the elements whose index is in keep
RECURSIVE KeepIndices(_, _, _)
KeepIndices(list, keep, i) ==
  IF i > Len(list) THEN <<>>
  ELSE (IF i \in keep THEN <<list[i]>> ELSE <<>>) \o KeepIndices(list, keep, i + 1)

\* findIndex(f => f.id === id) followed by splice(index, 1)
RemoveFirstById(list, id) ==
  LET hits == {i \in 1..Len(list) : list[i].id = id}
  IN IF hits = {} THEN list
     ELSE LET index == CHOOSE i \in hits : \A j \in hits : i <= j
          IN KeepIndices(list, (1..Len(list)) \ {index}, 1)

(***************************************************************************)
(* The scanned sources                                                     *)
(***************************************************************************)
RuleP == <<"p">>
RuleQ == <<"q">>

FileWA == <<"/", "w", "/", "a">>
FileVA == <<"/", "v", "/", "a">>

\* matched texts of length 4 at edit distance 0, 1 and 2 from LineS0,
\* that is at similarity 1.0, 0.75 and 0.5
LineS0 == <<"a", "b", "c", "d">>
LineS1 == <<"a", "b", "c", "e">>
LineS2 == <<"a", "b", "x", "y">>

\* the patterns of the run, in the order runAnalysis executes them
PatternList == <<RuleP>>

\* the files of the workspaces, in the order the scanner reports them
SourceFileList == <<FileWA, FileVA>>

\* the lines a match can be on: the distance between them exceeds LineRange
SourceLines == {1, 1 + LineRange + 1}

SourceTexts == {LineS0, LineS1, LineS2}

IndexOf(list, x) == CHOOSE i \in 1..Len(list) : list[i] = x

\* what a scanner can report for the workspace folder: rule, file, line, text
SourceMatches(workspaceFolder) ==
  {m \in [patternName    : {PatternList[i] : i \in 1..Len(PatternList)},
          filePath       : {SourceFileList[i] : i \in 1..Len(SourceFileList)},
          lineNumber     : SourceLines,
          matchedContent : SourceTexts] :
     GetWorkspaceFolder(m.filePath) = workspaceFolder}

\* position of a match in the output of a run: by pattern (the loop of
\* runAnalysis), then by file, then by line
OutputRank(m) ==
  (IndexOf(PatternList, m.patternName) * (Len(SourceFileList) + 1)
     + IndexOf(SourceFileList, m.filePath)) * 1000 + m.lineNumber

\* one run reports at most one match per rule, file and line
SameLocation(a, b) ==
  /\ a.patternName = b.patternName
  /\ a.filePath = b.filePath
  /\ a.lineNumber = b.lineNumber

ScanOutputs(workspaceFolder) ==
  {S \in SUBSET SourceMatches(workspaceFolder) :
     /\ Cardinality(S) <= MaxFindings
     /\ \A a, b \in S : SameLocation(a, b) => a = b}

RECURSIVE InOutputOrder(_)
InOutputOrder(S) ==
  IF S = {} THEN <<>>
  ELSE LET first == CHOOSE m \in S : \A x \in S : OutputRank(m) <= OutputRank(x)
       IN <<first>> \o InOutputOrder(S \ {first})

RawFinding(id, patternName, filePath, lineNumber, matchedContent) ==
  [id |-> id, persistentId |-> Undefined, patternName |-> patternName,
   filePath |-> filePath, lineNumber |-> lineNumber,
   matchedContent |-> matchedContent]

\* parseRipgrepOutput / parseWeggliOutput: one finding per match, each with
\* a fresh uuid; runAnalysis then enhances every finding
RunAnalysis(matches, firstId) ==
  LET out == InOutputOrder(matches)
  IN [i \in 1..Len(out) |->
        EnhanceFinding(RawFinding(firstId + i - 1, out[i].patternName,
                                  out[i].filePath, out[i].lineNumber,
                                  out[i].matchedContent))]

(***************************************************************************)
(* DecoratorService: the state d is the record of its four collections     *)
(***************************************************************************)
Decorator(byPath, ignoredIds, objects, byWorkspace) ==
  [findingsByFilePath |-> byPath, ignoredFindings |-> ignoredIds,
   ignoredFindingObjects |-> objects, ignoredFindingsByWorkspace |-> byWorkspace]

\* variant: after a finding skipped by its id the next one is skipped too
RECURSIVE SkipIgnored_SkipsNext(_, _, _, _)
SkipIgnored_SkipsNext(findings, i, acc, objects) ==
  IF i > Len(findings) THEN acc
  ELSE IF findings[i].id \in acc.ignoredFindings
       THEN SkipIgnored_SkipsNext(findings, i + 2, acc, objects)
       ELSE LET enhancedFinding == EnhanceFinding(findings[i])
                matchingIgnoredId ==
                  FindMatchingIgnoredFinding(enhancedFinding, objects)
            IN IF matchingIgnoredId # UndefinedId
               THEN SkipIgnored_SkipsNext(findings, i + 1,
                      [acc EXCEPT !.ignoredFindings = @ \cup {enhancedFinding.id}],
                      objects)
               ELSE SkipIgnored_SkipsNext(findings, i + 1,
                      [acc EXCEPT !.kept = Append(@, enhancedFinding)], objects)

\* the loop shared by getFilteredFindings and updateFindings: acc.kept are
\* the findings pushed to enhancedFindings, acc.ignoredFindings the id set
RECURSIVE SkipIgnored(_, _, _, _)
SkipIgnored(findings, i, acc, objects) ==
  IF i > Len(findings) THEN acc
  ELSE IF findings[i].id \in acc.ignoredFindings
       THEN SkipIgnored(findings, i + 1, acc, objects)
       ELSE LET enhancedFinding == EnhanceFinding(findings[i])
                matchingIgnoredId ==
                  FindMatchingIgnoredFinding(enhancedFinding, objects)
            IN IF matchingIgnoredId # UndefinedId
               THEN SkipIgnored(findings, i + 1,
                      [acc EXCEPT !.ignoredFindings = @ \cup {enhancedFinding.id}],
                      objects)
               ELSE SkipIgnored(findings, i + 1,
                      [acc EXCEPT !.kept = Append(@, enhancedFinding)], objects)

\* getFilteredFindings: the returned list (kept) and the id set afterwards
GetFilteredFindings(d, findings) ==
  SkipIgnored(findings, 1, [kept |-> <<>>, ignoredFindings |-> d.ignoredFindings],
              d.ignoredFindingObjects)

\* the grouping loop of updateFindings
GroupByFilePath(findings) ==
  [p \in {findings[i].filePath : i \in 1..Len(findings)} |->
     KeepIndices(findings, {i \in 1..Len(findings) : findings[i].filePath = p}, 1)]

\* variant: a record that matched a finding of the scan is dropped
UpdateFindings_DropsMatched(d, findings) ==
  LET filtered == SkipIgnored(findings, 1,
                    [kept |-> <<>>, ignoredFindings |-> d.ignoredFindings],
                    d.ignoredFindingObjects)
      matched == {FindMatchingIgnoredFinding(EnhanceFinding(findings[i]),
                                             d.ignoredFindingObjects) :
                    i \in 1..Len(findings)}
  IN [d EXCEPT !.findingsByFilePath = GroupByFilePath(filtered.kept),
               !.ignoredFindings = filtered.ignoredFindings,
               !.ignoredFindingObjects =
                  KeepIndices(@, {i \in 1..Len(@) : @[i].id \notin matched}, 1)]

\* variant: the findings are grouped without being filtered
UpdateFindings_Unfiltered(d, findings) ==
  [d EXCEPT !.findingsByFilePath = GroupByFilePath(findings)]

UpdateFindings(d, findings) ==
  LET filtered == SkipIgnored(findings, 1,
                    [kept |-> <<>>, ignoredFindings |-> d.ignoredFindings],
                    d.ignoredFindingObjects)
  IN [d EXCEPT !.findingsByFilePath = GroupByFilePath(filtered.kept),
               !.ignoredFindings = filtered.ignoredFindings]

IsIgnored(d, findingId) == findingId \in d.ignoredFindings

\* the record addToWorkspaceIgnored stores for a finding
IgnoredFindingOf(finding) ==
  [id |-> finding.id,
   persistentId |-> IF finding.persistentId # Undefined
                    THEN finding.persistentId
                    ELSE GeneratePersistentId(finding),
   patternName |-> finding.patternName,
   filePath |-> finding.filePath,
   lineNumber |-> finding.lineNumber,
   matchedContent |-> finding.matchedContent]

AddToWorkspaceIgnored(d, finding, filePath) ==
  LET workspaceFolder == GetWorkspaceFolder(filePath)
      ignoredFinding == IgnoredFindingOf(finding)
      workspaceIgnored ==
        IF MapHas(d.ignoredFindingsByWorkspace, workspaceFolder)
        THEN d.ignoredFindingsByWorkspace[workspaceFolder]
        ELSE <<>>
  IN IF workspaceFolder = Undefined THEN d
     ELSE [d EXCEPT
             !.ignoredFindingsByWorkspace =
                MapSet(@, workspaceFolder, Append(workspaceIgnored, ignoredFinding)),
             !.ignoredFindings = @ \cup {finding.id},
             !.ignoredFindingObjects = Append(@, ignoredFinding)]

\* the content of a store file: absent, or the JSON array of records
NoFile == [exists |-> FALSE, records |-> <<>>]

FileWith(records) == [exists |-> TRUE, records |-> records]

\* variant: the records of all workspaces are written to the file
SaveIgnoredFindings_AllRecords(files, d, filePath) ==
  LET workspaceFolder == GetWorkspaceFolder(filePath)
      byWorkspace ==
        IF MapHas(d.ignoredFindingsByWorkspace, workspaceFolder)
        THEN d.ignoredFindingsByWorkspace
        ELSE MapSet(d.ignoredFindingsByWorkspace, workspaceFolder, <<>>)
  IN IF workspaceFolder = Undefined
     THEN [files |-> files, d |-> d]
     ELSE [files |-> [files EXCEPT ![workspaceFolder] =
                        FileWith(d.ignoredFindingObjects)],
           d |-> [d EXCEPT !.ignoredFindingsByWorkspace = byWorkspace]]

\* variant: the store file is not written
SaveIgnoredFindings_NoWrite(files, d, filePath) ==
  LET workspaceFolder == GetWorkspaceFolder(filePath)
      byWorkspace ==
        IF MapHas(d.ignoredFindingsByWorkspace, workspaceFolder)
        THEN d.ignoredFindingsByWorkspace
        ELSE MapSet(d.ignoredFindingsByWorkspace, workspaceFolder, <<>>)
  IN IF workspaceFolder = Undefined
     THEN [files |-> files, d |-> d]
     ELSE [files |-> files,
           d |-> [d EXCEPT !.ignoredFindingsByWorkspace = byWorkspace]]

\* saveIgnoredFindings(filePath): the store files and the map afterwards
SaveIgnoredFindings(files, d, filePath) ==
  LET workspaceFolder == GetWorkspaceFolder(filePath)
      byWorkspace ==
        IF MapHas(d.ignoredFindingsByWorkspace, workspaceFolder)
        THEN d.ignoredFindingsByWorkspace
        ELSE MapSet(d.ignoredFindingsByWorkspace, workspaceFolder, <<>>)
  IN IF workspaceFolder = Undefined
     THEN [files |-> files, d |-> d]
     ELSE [files |-> [files EXCEPT ![workspaceFolder] =
                        FileWith(byWorkspace[workspaceFolder])],
           d |-> [d EXCEPT !.ignoredFindingsByWorkspace = byWorkspace]]

\* GrepResultsProvider.refresh, run by the greppy.refreshResultsTree command:
\* the stored results are filtered again, which may add ids to the id set
Refresh(d, storedResults) ==
  IF Len(storedResults) > 0
  THEN [d EXCEPT !.ignoredFindings =
                    GetFilteredFindings(d, storedResults).ignoredFindings]
  ELSE d

\* the filtering loop of updateDecorationsAfterIgnore
RemainingFindings(d) ==
  LET remaining(p) ==
        KeepIndices(d.findingsByFilePath[p],
                    {i \in 1..Len(d.findingsByFilePath[p]) :
                       d.findingsByFilePath[p][i].id \notin d.ignoredFindings}, 1)
      kept == {p \in DOMAIN d.findingsByFilePath : remaining(p) # <<>>}
  IN [p \in kept |-> remaining(p)]

UpdateDecorationsAfterIgnore(d, storedResults) ==
  Refresh([d EXCEPT !.findingsByFilePath = RemainingFindings(d)], storedResults)

\* the findings the editors decorate, over all files
StoredFindings(byPath) ==
  UNION {{byPath[p][i] : i \in 1..Len(byPath[p])} : p \in DOMAIN byPath}

\* loadIgnoredFindings: the collections after reading the store files
RECURSIVE LoadedObjects(_, _)
LoadedObjects(files, k) ==
  IF k > Len(WorkspaceFolderList) THEN <<>>
  ELSE (IF files[WorkspaceFolderList[k]].exists
        THEN files[WorkspaceFolderList[k]].records ELSE <<>>)
       \o LoadedObjects(files, k + 1)

LoadIgnoredFindings(files) ==
  LET objects == LoadedObjects(files, 1)
  IN Decorator(EmptyMap,
               {objects[i].id : i \in 1..Len(objects)},
               objects,
               [w \in {x \in WorkspaceFolders : files[x].exists} |-> files[w].records])

(***************************************************************************)
(* The program                                                             *)
(***************************************************************************)
\* no call of GrepService.runAnalysis is under study
NoRunCall ==
  /\ rPatterns = <<>>
  /\ rToolCheck = Undefined
  /\ rResult = Undefined

\* no call of another function is under study
NoCall ==
  /\ call = Undefined
  /\ returned = Undefined

\* no async call is followed and the tree's filters are not under study
NoUi ==
  /\ asyncCalls = <<>>
  /\ tree = Undefined

\* no greppy.runAnalysis command is in flight
IdleRun ==
  [stage |-> "idle", folder |-> Undefined, found |-> <<>>, i |-> 0, kept |-> <<>>]

\* no quick pick is shown
ClosedPicker == [open |-> FALSE, folder |-> Undefined, items |-> <<>>]

\* the current state of the DecoratorService
decorator ==
  Decorator(findingsByFilePath, ignoredFindings, ignoredFindingObjects,
            ignoredFindingsByWorkspace)

SetDecorator(d) ==
  /\ findingsByFilePath' = d.findingsByFilePath
  /\ ignoredFindings' = d.ignoredFindings
  /\ ignoredFindingObjects' = d.ignoredFindingObjects
  /\ ignoredFindingsByWorkspace' = d.ignoredFindingsByWorkspace

\* a record kept from an earlier session (its session id is not reused)
EarlierRecord ==
  IgnoredFindingOf(EnhanceFinding(RawFinding(0 - 1, RuleP, FileWA, 1, LineS0)))

\* the store files found at start-up
InitialStoreFiles ==
  {[w \in WorkspaceFolders |-> NoFile],
   [w \in WorkspaceFolders |-> IF w = WsW THEN FileWith(<<EarlierRecord>>) ELSE NoFile]}

Init ==
  /\ storeFile \in InitialStoreFiles
  /\ results = <<>>
  /\ findingsByFilePath = LoadIgnoredFindings(storeFile).findingsByFilePath
  /\ ignoredFindings = LoadIgnoredFindings(storeFile).ignoredFindings
  /\ ignoredFindingObjects = LoadIgnoredFindings(storeFile).ignoredFindingObjects
  /\ ignoredFindingsByWorkspace = LoadIgnoredFindings(storeFile).ignoredFindingsByWorkspace
  /\ nextId = 1
  /\ lastOp = <<"activate">>
  /\ mFinding = Undefined
  /\ mIgnored = <<>>
  /\ mResult = UndefinedId
  /\ sStr1 = <<>>
  /\ sStr2 = <<>>
  /\ sResult = Undefined
  /\ run = IdleRun
  /\ picker = ClosedPicker
  /\ acknowledged = {}
  /\ NoUi
  /\ NoRunCall
  /\ NoCall

\* the greppy.runAnalysis command on one workspace folder: runAnalysis,
\* resultsProvider.update, decoratorService.updateFindings
RunAnalysisCommand(workspaceFolder, matches) ==
  LET found == RunAnalysis(matches, nextId)
      updated == [decorator EXCEPT !.ignoredFindings =
                    GetFilteredFindings(decorator, found).ignoredFindings]
  IN /\ nextId + Cardinality(matches) - 1 <= MaxIds
     /\ results' = found
     /\ SetDecorator(UpdateFindings(updated, found))
     /\ nextId' = nextId + Len(found)
     /\ lastOp' = <<"runAnalysis", workspaceFolder>>
     /\ UNCHANGED <<storeFile, matchVars, simVars, runVars, callVars, uiVars, asyncVars, acknowledged>>

\* the greppy.ignoreFinding command (the link of the hover of a finding)
IgnoreFinding(findingId) ==
  \E filePath \in DOMAIN findingsByFilePath :
    \E i \in 1..Len(findingsByFilePath[filePath]) :
      LET findingToIgnore == findingsByFilePath[filePath][i]
          added == AddToWorkspaceIgnored(decorator, findingToIgnore, filePath)
          saved == SaveIgnoredFindings(storeFile, added, filePath)
      IN /\ findingToIgnore.id = findingId
         /\ Len(ignoredFindingObjects) < MaxIgnored
         /\ storeFile' = saved.files
         /\ SetDecorator(UpdateDecorationsAfterIgnore(saved.d, results))
         /\ lastOp' = <<"ignoreFinding", findingId>>
         /\ acknowledged' = acknowledged \cup {IgnoredFindingOf(findingToIgnore)}
         /\ UNCHANGED <<results, nextId, matchVars, simVars, runVars, callVars, uiVars, asyncVars>>

\* the removal loop of showIgnoredFindingsManager over the selected items
RECURSIVE RemoveSelected(_, _, _)
RemoveSelected(d, workspaceFolder, items) ==
  IF items = <<>> THEN d
  ELSE RemoveSelected(
         [d EXCEPT
            !.ignoredFindingsByWorkspace[workspaceFolder] =
               RemoveFirstById(@, items[1].id),
            !.ignoredFindings = @ \ {items[1].id},
            !.ignoredFindingObjects = RemoveFirstById(@, items[1].id)],
         workspaceFolder, Tail(items))

\* the greppy.manageIgnoredFindings command: the user picks the records of
\* the current workspace folder (positions selected) to remove
ShowIgnoredFindingsManager(workspaceFolder, selected) ==
  LET workspaceIgnored == ignoredFindingsByWorkspace[workspaceFolder]
      items == KeepIndices(workspaceIgnored, selected, 1)
      removed == RemoveSelected(decorator, workspaceFolder, items)
      saved == SaveIgnoredFindings(storeFile, removed, workspaceFolder)
  IN /\ storeFile' = saved.files
     /\ SetDecorator(UpdateDecorationsAfterIgnore(saved.d, results))
     /\ lastOp' = <<"unignore", workspaceFolder>>
     /\ acknowledged' = {a \in acknowledged : a.id \notin {items[k].id : k \in 1..Len(items)}}
     /\ UNCHANGED <<results, nextId, matchVars, simVars, runVars, callVars, uiVars, asyncVars>>

Next ==
  \/ \E w \in WorkspaceFolders : \E matches \in ScanOutputs(w) :
       RunAnalysisCommand(w, matches)
  \/ \E findingId \in 1..MaxIds : IgnoreFinding(findingId)
  \/ \E w \in DOMAIN ignoredFindingsByWorkspace :
       \E selected \in (SUBSET (1..Len(ignoredFindingsByWorkspace[w]))) \ {{}} :
         ShowIgnoredFindingsManager(w, selected)

Spec == Init /\ [][Next]_vars

(***************************************************************************)
(* One call of findMatchingIgnoredFinding on bounded inputs                *)
(***************************************************************************)
\* matched texts of length 10 at edit distance 0, 2, 3 and 4 from TextA,
\* that is at similarity 1.0, 0.8, 0.7 and 0.6
TextA  == <<"a", "b", "c", "d", "e", "f", "g", "h", "i", "j">>
TextD2 == <<"b", "c", "d", "e", "f", "g", "h", "i", "j", "k">>
TextD3 == <<"b", "c", "d", "e", "f", "g", "h", "x", "j", "k">>
TextD4 == <<"a", "b", "c", "d", "e", "f", "w", "x", "y", "z">>

FileWDA == <<"/", "w", "/", "d", "/", "a">>
FileWEA == <<"/", "w", "/", "e", "/", "a">>
FileWXA == <<"/", "w", "/", "x", "a">>

\* the findings handed to the matcher (always enhanced by the callers)
MatchFindings ==
  {EnhanceFinding(RawFinding(100, RuleP, FileWDA, 17, TextA)),
   EnhanceFinding(RawFinding(100, RuleP, FileWA, 7, TextA))}

\* record bodies: for the findings' rule every combination of path, line,
\* text and fingerprint (the finding's or another one); for the other rule
\* a record that passes every other test of the fuzzy filter and one that
\* fails them all
MatchRecordBodies ==
  [persistentId   : {f.persistentId : f \in MatchFindings},
   patternName    : {RuleP},
   filePath       : {FileWDA, FileWEA, FileWXA},
   lineNumber     : {2, 33},
   matchedContent : {TextA, TextD2, TextD3, TextD4}]
  \cup
  [persistentId   : {f.persistentId : f \in MatchFindings},
   patternName    : {RuleQ},
   filePath       : {FileWDA},
   lineNumber     : {2},
   matchedContent : {TextA}]
  \cup
  [persistentId   : {f.persistentId : f \in MatchFindings},
   patternName    : {RuleQ},
   filePath       : {FileWXA},
   lineNumber     : {33},
   matchedContent : {TextD4}]

IgnoredOf(body, id) ==
  [id |-> id, persistentId |-> body.persistentId,
   patternName |-> body.patternName, filePath |-> body.filePath,
   lineNumber |-> body.lineNumber, matchedContent |-> body.matchedContent]

\* a record list made of the given bodies; the record at position i has id i
RecordListOf(bodies) == [i \in 1..Len(bodies) |-> IgnoredOf(bodies[i], i)]

Pending == 0 - 1

InitMatch ==
  /\ mFinding \in MatchFindings
  /\ \E n \in 0..MaxRecords : \E bodies \in [1..n -> MatchRecordBodies] :
       mIgnored = RecordListOf(bodies)
  /\ mResult = Pending
  /\ results = <<>>
  /\ findingsByFilePath = <<>>
  /\ ignoredFindings = {}
  /\ ignoredFindingObjects = <<>>
  /\ ignoredFindingsByWorkspace = <<>>
  /\ storeFile = <<>>
  /\ nextId = 1
  /\ lastOp = <<"match">>
  /\ sStr1 = <<>>
  /\ sStr2 = <<>>
  /\ sResult = Undefined
  /\ run = IdleRun
  /\ picker = ClosedPicker
  /\ acknowledged = {}
  /\ NoUi
  /\ NoRunCall
  /\ NoCall

CallFindMatchingIgnoredFinding ==
  /\ mResult = Pending
  /\ mResult' = FindMatchingIgnoredFinding(mFinding, mIgnored)
  /\ UNCHANGED <<mFinding, mIgnored>>
  /\ UNCHANGED <<sysVars, simVars, runVars, callVars, uiVars, asyncVars, acknowledged>>

NextMatch == CallFindMatchingIgnoredFinding

SpecMatch == InitMatch /\ [][NextMatch]_vars

\* what the call returned, once it has returned
Returned == mResult # Pending

TypeMatch == mResult \in {Pending, UndefinedId} \cup (1..MaxRecords)

(***************************************************************************)
(* One call of calculateStringSimilarity on bounded inputs                 *)
(***************************************************************************)
Alphabet == {"a", "b"}

\* the strings over the alphabet of length 0..MaxLen
Strings == UNION {[1..n -> Alphabet] : n \in 0..MaxLen}

InitSim ==
  /\ sStr1 \in Strings
  /\ sStr2 \in Strings
  /\ sResult = Undefined
  /\ mFinding = Undefined
  /\ mIgnored = <<>>
  /\ mResult = UndefinedId
  /\ results = <<>>
  /\ findingsByFilePath = <<>>
  /\ ignoredFindings = {}
  /\ ignoredFindingObjects = <<>>
  /\ ignoredFindingsByWorkspace = <<>>
  /\ storeFile = <<>>
  /\ nextId = 1
  /\ lastOp = <<"similarity">>
  /\ run = IdleRun
  /\ picker = ClosedPicker
  /\ acknowledged = {}
  /\ NoUi
  /\ NoRunCall
  /\ NoCall

CallCalculateStringSimilarity ==
  /\ sResult = Undefined
  /\ sResult' = CalculateStringSimilarity(sStr1, sStr2)
  /\ UNCHANGED <<sStr1, sStr2>>
  /\ UNCHANGED <<sysVars, matchVars, runVars, callVars, uiVars, asyncVars, acknowledged>>

NextSim == CallCalculateStringSimilarity

SpecSim == InitSim /\ [][NextSim]_vars

\* the call has returned
Computed == sResult # Undefined

(***************************************************************************)
(* One call of GrepService.runAnalysis, of the greppy.runAnalysis command  *)
(* or of the direct scan of one file, on a bounded pattern list.  A        *)
(* pattern is given with what its scanner does when it is invoked.         *)
(***************************************************************************)
\* what invoking a scanner leads to: output with a match, exit code 1 with
\* an empty error stream, another failure with a non-empty error stream,
\* or ENOENT
Outcomes == {"matches", "noMatch", "failure", "notFound"}

\* how weggli ends on one file of the listing: every error other than the
\* no-match condition, ENOENT included, is handled alike ("failure")
FileOutcomes == Outcomes \ {"notFound"}

\* COMMON_FILE_TYPES.cpp
CppFileTypes ==
  {<<"c">>, <<"c", "p", "p">>, <<"h">>, <<"h", "p", "p">>, <<"c", "c">>,
   <<"c", "x", "x">>, <<"c", "+", "+">>, <<"h", "x", "x">>, <<"h", "+", "+">>,
   <<"i", "x", "x">>, <<"c", "p", "p", "m">>, <<"c", "u">>, <<"i", "n", "l">>,
   <<"t", "p", "p">>, <<"t", "x", "x">>, <<"m", "x", "x">>}

\* the wildcard of supportedFileTypes
Wildcard == <<"*">>

\* String.prototype.toLowerCase on the letters that occur in the paths
ToLowerCase(s) ==
  [i \in 1..Len(s) |->
     CASE s[i] = "C" -> "c"
       [] s[i] = "P" -> "p"
       [] s[i] = "Y" -> "y"
       [] OTHER      -> s[i]]

\* filePath.split(".").pop()?.toLowerCase() || "": the text after the last
\* dot, the whole path when it has no dot
FileExtension(filePath) ==
  LET dots == {i \in 1..Len(filePath) : filePath[i] = "."}
      last == IF dots = {} THEN 0 ELSE CHOOSE i \in dots : \A j \in dots : j <= i
  IN ToLowerCase(SubSeq(filePath, last + 1, Len(filePath)))

\* PatternManager.isPatternSupportedForFileType; an absent
\* supportedFileTypes is the empty list
IsPatternSupportedForFileType(pattern, fileExtension) ==
  LET types == {pattern.supportedFileTypes[i] :
                  i \in 1..Len(pattern.supportedFileTypes)}
  IN IF Len(pattern.supportedFileTypes) > 0
     THEN IF Wildcard \in types THEN TRUE ELSE fileExtension \in types
     ELSE IF pattern.tool = "weggli" THEN fileExtension \in CppFileTypes
     ELSE TRUE

\* the i-th path printed by the listing of the C/C++ files of the workspace
CppFile(i) == WsW \o <<"/", ToString(i), ".", "c">>

\* the patterns of a workspace run.  outcome is how the first invocation
\* made for the pattern ends: the search of ripgrep, or for weggli the
\* listing of the C/C++ files by ripgrep ("matches": it printed the paths
\* CppFile(1), ..., CppFile(Len(files))); files[i] is how weggli ends on
\* CppFile(i)
PatternConfigs ==
  [tool : {"ripgrep"}, outcome : Outcomes, files : {<<>>},
   supportedFileTypes : {<<>>}]
    \cup [tool : {"weggli"}, outcome : Outcomes \ {"matches"}, files : {<<>>},
          supportedFileTypes : {<<>>}]
    \cup UNION {[tool : {"weggli"}, outcome : {"matches"},
                 files : [1..n -> FileOutcomes], supportedFileTypes : {<<>>}] :
                  n \in 0..MaxFiles}

\* the name of the pattern at position i of the list
PatternName(i) == <<"r", ToString(i)>>

ToolChecks == [ripgrepAvailable : BOOLEAN, weggliAvailable : BOOLEAN]

\* one execa call: the tool, what it is asked for and on what
Invocation(tool, mode, target) == [tool |-> tool, mode |-> mode, target |-> target]

\* variant: weggli is invoked once, on the workspace folder
WeggliOnFiles_OnFolder(pattern, name, id, i, acc) ==
  [acc EXCEPT !.invocations = Append(@, Invocation("weggli", "query", WsW))]

\* the loop of executePattern over cppFiles: an error on a file is caught
\* (only logged unless it is the no-match condition) and the loop goes on
RECURSIVE WeggliOnFiles(_, _, _, _, _)
WeggliOnFiles(pattern, name, id, i, acc) ==
  IF i > Len(pattern.files) THEN acc
  ELSE LET invoked == [acc EXCEPT !.invocations =
                         Append(@, Invocation("weggli", "query", CppFile(i)))]
           found == RawFinding(id + Len(acc.results), name, CppFile(i), 1, LineS0)
       IN WeggliOnFiles(pattern, name, id, i + 1,
            CASE pattern.files[i] = "matches" ->
                   [invoked EXCEPT !.results = Append(@, found)]
              [] pattern.files[i] = "noMatch" -> invoked
              [] OTHER -> [invoked EXCEPT !.logged = @ + 1])

\* variant: the no-match condition is rethrown like any other error
ExecutePattern_NoMatchThrows(pattern, name, id) ==
  LET Returns(list, invocations, logged) ==
        [threw |-> FALSE, error |-> "", results |-> list,
         invocations |-> invocations, logged |-> logged]
      Throws(error, invocations) ==
        [threw |-> TRUE, error |-> error, results |-> <<>>,
         invocations |-> invocations, logged |-> 0]
      search == <<Invocation("ripgrep", "search", WsW)>>
      listing == <<Invocation("ripgrep", "files", WsW)>>
      start == [results |-> <<>>, invocations |-> listing, logged |-> 0]
      done == WeggliOnFiles(pattern, name, id, 1, start)
  IN IF pattern.tool = "ripgrep"
     THEN CASE pattern.outcome = "matches" ->
                 Returns(<<RawFinding(id, name, FileWA, 1, LineS0)>>, search, 0)
            [] pattern.outcome = "notFound" ->
                 Throws("executable not found", search)
            [] OTHER -> Throws("failure", search)
     ELSE IF pattern.outcome # "matches" THEN Returns(<<>>, listing, 1)
          ELSE IF Len(pattern.files) = 0 THEN Returns(<<>>, listing, 0)
          ELSE Returns(done.results, done.invocations, done.logged)

\* executePattern: the findings returned or the error thrown, the execa
\* calls made, in order, and the number of errors written to the console
ExecutePattern(pattern, name, id) ==
  LET Returns(list, invocations, logged) ==
        [threw |-> FALSE, error |-> "", results |-> list,
         invocations |-> invocations, logged |-> logged]
      Throws(error, invocations) ==
        [threw |-> TRUE, error |-> error, results |-> <<>>,
         invocations |-> invocations, logged |-> 0]
      search == <<Invocation("ripgrep", "search", WsW)>>
      listing == <<Invocation("ripgrep", "files", WsW)>>
      start == [results |-> <<>>, invocations |-> listing, logged |-> 0]
      done == WeggliOnFiles(pattern, name, id, 1, start)
  IN IF pattern.tool = "ripgrep"
     THEN CASE pattern.outcome = "matches" ->
                 Returns(<<RawFinding(id, name, FileWA, 1, LineS0)>>, search, 0)
            [] pattern.outcome = "noMatch" -> Returns(<<>>, search, 0)
            [] pattern.outcome = "notFound" ->
                 Throws("executable not found", search)
            [] OTHER -> Throws("failure", search)
     ELSE \* weggli: every error of the listing is caught and ends the call
          IF pattern.outcome # "matches" THEN Returns(<<>>, listing, 1)
          ELSE IF Len(pattern.files) = 0 THEN Returns(<<>>, listing, 0)
          ELSE Returns(done.results, done.invocations, done.logged)

\* variant: the loop ends at the first pattern that throws
RECURSIVE RunPatterns_StopsAtFailure(_, _, _, _)
RunPatterns_StopsAtFailure(patterns, filtered, k, acc) ==
  IF k > Len(filtered) THEN acc
  ELSE LET i == filtered[k]
           executed == ExecutePattern(patterns[i], PatternName(i), acc.nextId)
       IN IF executed.threw
          THEN [acc EXCEPT !.executed = Append(@, i), !.failed = Append(@, i),
                           !.invocations = Append(@, executed.invocations)]
          ELSE RunPatterns_StopsAtFailure(patterns, filtered, k + 1,
                 [acc EXCEPT
                    !.executed = Append(@, i),
                    !.invocations = Append(@, executed.invocations),
                    !.allResults =
                       @ \o [n \in 1..Len(executed.results) |->
                               EnhanceFinding(executed.results[n])],
                    !.nextId = @ + Len(executed.results)])

\* the loop of runAnalysis over the filtered patterns (positions of the
\* list): executed are the patterns executePattern was called for, failed
\* those whose error was caught and shown to the user, invocations the
\* execa calls of each executed pattern
RECURSIVE RunPatterns(_, _, _, _)
RunPatterns(patterns, filtered, k, acc) ==
  IF k > Len(filtered) THEN acc
  ELSE LET i == filtered[k]
           executed == ExecutePattern(patterns[i], PatternName(i), acc.nextId)
       IN IF executed.threw
          THEN RunPatterns(patterns, filtered, k + 1,
                 [acc EXCEPT !.executed = Append(@, i), !.failed = Append(@, i),
                             !.invocations = Append(@, executed.invocations)])
          ELSE RunPatterns(patterns, filtered, k + 1,
                 [acc EXCEPT
                    !.executed = Append(@, i),
                    !.invocations = Append(@, executed.invocations),
                    !.allResults =
                       @ \o [n \in 1..Len(executed.results) |->
                               EnhanceFinding(executed.results[n])],
                    !.nextId = @ + Len(executed.results)])

\* positions of a set in increasing order
RECURSIVE Ascending(_)
Ascending(S) ==
  IF S = {} THEN <<>>
  ELSE LET least == CHOOSE i \in S : \A j \in S : i <= j
       IN <<least>> \o Ascending(S \ {least})

\* the patterns left by the filter on missing tools
FilteredPatterns(patterns, toolCheck) ==
  Ascending({i \in 1..Len(patterns) :
               /\ ~ (patterns[i].tool = "ripgrep" /\ ~ toolCheck.ripgrepAvailable)
               /\ ~ (patterns[i].tool = "weggli" /\ ~ toolCheck.weggliAvailable)})

\* runAnalysis(workspaceFolder, patterns): no path of it throws, so the
\* caller always receives a list
RunAnalysisOf(patterns, toolCheck) ==
  LET start == [allResults |-> <<>>, executed |-> <<>>, failed |-> <<>>,
                invocations |-> <<>>, nextId |-> 1]
      filtered == FilteredPatterns(patterns, toolCheck)
      done == IF Len(patterns) = 0 \/ Len(filtered) = 0 THEN start
              ELSE RunPatterns(patterns, filtered, 1, start)
  IN [fn |-> "runAnalysis", threw |-> FALSE, allResults |-> done.allResults,
      executed |-> done.executed, failed |-> done.failed,
      invocations |-> done.invocations, warned |-> FALSE]

\* checkRequiredTools: a tool is probed only when a pattern needs it;
\* probes tells whether `--version` of each tool succeeds
CheckRequiredTools(patterns, probes) ==
  LET ripgrepNeeded == \E i \in 1..Len(patterns) : patterns[i].tool = "ripgrep"
      weggliNeeded == \E i \in 1..Len(patterns) : patterns[i].tool = "weggli"
  IN [ripgrepNeeded |-> ripgrepNeeded, weggliNeeded |-> weggliNeeded,
      ripgrepAvailable |-> ripgrepNeeded /\ probes.ripgrepAvailable,
      weggliAvailable |-> weggliNeeded /\ probes.weggliAvailable]

\* the greppy.runAnalysis command from its tool check to the call of
\* grepService.runAnalysis: a needed tool that is not available ends the
\* command with a warning and an empty list
RunAnalysisCommandOf(patterns, probes) ==
  LET toolCheck == CheckRequiredTools(patterns, probes)
      ended == [fn |-> "command", threw |-> FALSE, allResults |-> <<>>,
                executed |-> <<>>, failed |-> <<>>, invocations |-> <<>>,
                warned |-> TRUE]
  IN IF Len(patterns) = 0 THEN [ended EXCEPT !.warned = FALSE]
     ELSE IF toolCheck.ripgrepNeeded /\ ~ toolCheck.ripgrepAvailable THEN ended
     ELSE IF toolCheck.weggliNeeded /\ ~ toolCheck.weggliAvailable THEN ended
     ELSE [RunAnalysisOf(patterns, probes) EXCEPT !.fn = "command"]

\* the files of a direct scan
FileWAC == FileWA \o <<".", "c">>
FileWAPy == FileWA \o <<".", "p", "y">>
FileWAUpperC == FileWA \o <<".", "C">>
ScannedFiles == {FileWAC, FileWAPy, FileWAUpperC, FileWA}

\* the patterns of a direct scan of one file: outcome is how the scanner of
\* the pattern ends on that file
FilePatternConfigs ==
  [tool : {"ripgrep", "weggli"}, outcome : Outcomes, files : {<<>>},
   supportedFileTypes : {<<>>, <<Wildcard>>, <<<<"c">>>>, <<<<"p", "y">>>>}]

\* executePatternOnPath: no path of it throws
ExecutePatternOnPath(pattern, name, id, filePath, disabledPatterns) ==
  LET Returns(list, invocations, logged) ==
        [threw |-> FALSE, error |-> "", results |-> list,
         invocations |-> invocations, logged |-> logged]
      invoked == <<Invocation(pattern.tool,
                              IF pattern.tool = "ripgrep" THEN "search" ELSE "query",
                              filePath)>>
  IN IF name \in disabledPatterns THEN Returns(<<>>, <<>>, 0)
     ELSE IF ~ IsPatternSupportedForFileType(pattern, FileExtension(filePath))
     THEN Returns(<<>>, <<>>, 0)
     ELSE CASE pattern.outcome = "matches" ->
                 Returns(<<RawFinding(id, name, filePath, 1, LineS0)>>, invoked, 0)
            [] pattern.outcome = "noMatch" -> Returns(<<>>, invoked, 0)
            [] OTHER -> Returns(<<>>, invoked, 1)

\* the direct file scan of scanSingleFile: executePatternOnPath for every
\* pattern, in order; an error of one pattern is caught and logged
RECURSIVE DirectFileScan(_, _, _, _, _)
DirectFileScan(patterns, filePath, disabledPatterns, i, acc) ==
  IF i > Len(patterns) THEN acc
  ELSE LET executed == ExecutePatternOnPath(patterns[i], PatternName(i),
                         1 + Len(acc.allResults), filePath, disabledPatterns)
       IN DirectFileScan(patterns, filePath, disabledPatterns, i + 1,
            [acc EXCEPT !.executed = Append(@, i),
                        !.invocations = Append(@, executed.invocations),
                        !.allResults = @ \o executed.results])

InitRun ==
  /\ \/ /\ \E n \in 0..MaxPatterns : rPatterns \in [1..n -> PatternConfigs]
        /\ NoCall
        /\ rToolCheck \in ToolChecks
     \/ /\ \E n \in 1..MaxPatterns : rPatterns \in [1..n -> FilePatternConfigs]
        /\ call \in [fn : {"directFileScan"}, filePath : ScannedFiles,
                     disabledPatterns : {{}, {PatternName(1)}}]
        /\ returned = Undefined
        /\ rToolCheck = [ripgrepAvailable |-> TRUE, weggliAvailable |-> TRUE]
  /\ rResult = Undefined
  /\ mFinding = Undefined
  /\ mIgnored = <<>>
  /\ mResult = UndefinedId
  /\ sStr1 = <<>>
  /\ sStr2 = <<>>
  /\ sResult = Undefined
  /\ results = <<>>
  /\ findingsByFilePath = <<>>
  /\ ignoredFindings = {}
  /\ ignoredFindingObjects = <<>>
  /\ ignoredFindingsByWorkspace = <<>>
  /\ storeFile = <<>>
  /\ nextId = 1
  /\ lastOp = <<"run">>
  /\ run = IdleRun
  /\ picker = ClosedPicker
  /\ acknowledged = {}
  /\ NoUi

CallRunAnalysis ==
  /\ rResult = Undefined
  /\ call = Undefined
  /\ rResult' = RunAnalysisOf(rPatterns, rToolCheck)
  /\ UNCHANGED <<rPatterns, rToolCheck>>
  /\ UNCHANGED <<sysVars, matchVars, simVars, callVars, uiVars, asyncVars, acknowledged>>

\* the command is run instead
CallRunAnalysisCommand ==
  /\ rResult = Undefined
  /\ call = Undefined
  /\ rResult' = RunAnalysisCommandOf(rPatterns, rToolCheck)
  /\ UNCHANGED <<rPatterns, rToolCheck>>
  /\ UNCHANGED <<sysVars, matchVars, simVars, callVars, uiVars, asyncVars, acknowledged>>

\* a saved file is scanned directly
CallDirectFileScan ==
  /\ rResult = Undefined
  /\ call # Undefined
  /\ rResult' =
       [DirectFileScan(rPatterns, call.filePath, call.disabledPatterns, 1,
          [fn |-> "directFileScan", threw |-> FALSE, allResults |-> <<>>,
           executed |-> <<>>, failed |-> <<>>, invocations |-> <<>>,
           warned |-> FALSE])
        EXCEPT !.fn = "directFileScan"]
  /\ UNCHANGED <<rPatterns, rToolCheck>>
  /\ UNCHANGED <<sysVars, matchVars, simVars, callVars, uiVars, asyncVars, acknowledged>>

NextRun ==
  \/ CallRunAnalysis
  \/ CallRunAnalysisCommand
  \/ CallDirectFileScan

SpecRun == InitRun /\ [][NextRun]_vars

\* the call has settled
Settled == rResult # Undefined

(***************************************************************************)
(* A cancellable progress: the greppy.runAnalysis command over its         *)
(* patterns, or scanAllOpenFiles over the open files, one loop iteration   *)
(* at a time, while the user may press the cancel button of the progress   *)
(* notification (token.isCancellationRequested).  call is the progress,    *)
(* rResult what the run has gathered so far.                               *)
(***************************************************************************)
AllAvailable == [ripgrepAvailable |-> TRUE, weggliAvailable |-> TRUE]

\* nothing gathered yet
NothingGathered ==
  [allResults |-> <<>>, executed |-> <<>>, failed |-> <<>>,
   invocations |-> <<>>, nextId |-> 1]

\* PatternManager.getPatternsForFile
GetPatternsForFile(patterns, filePath) ==
  LET applicable == Ascending({i \in 1..Len(patterns) :
                       IsPatternSupportedForFileType(patterns[i],
                                                     FileExtension(filePath))})
  IN [k \in 1..Len(applicable) |-> patterns[applicable[k]]]

\* scanSingleFile up to its fileResults: the workspace analysis filtered to
\* the file, and the direct scan of the file when that leaves nothing
ScanSingleFile(patterns, filePath) ==
  LET patternsToUse == GetPatternsForFile(patterns, filePath)
      workspaceResults == RunAnalysisOf(patternsToUse, AllAvailable).allResults
      thisFileResults ==
        KeepIndices(workspaceResults,
                    {n \in 1..Len(workspaceResults) :
                       \/ EndsWith(workspaceResults[n].filePath, filePath)
                       \/ EndsWith(filePath, workspaceResults[n].filePath)}, 1)
      direct == DirectFileScan(patternsToUse, filePath, {}, 1, NothingGathered)
  IN IF Len(patternsToUse) = 0 THEN <<>>
     ELSE IF Len(thisFileResults) > 0 THEN thisFileResults
     ELSE direct.allResults

\* the patterns of a scan of the open files
OpenFilePatternConfigs ==
  [tool : {"ripgrep", "weggli"}, outcome : {"matches", "noMatch"},
   files : {<<>>}, supportedFileTypes : {<<>>, <<<<"c">>>>}]

\* the documents that can be open
OpenFiles == {FileWA, FileWAC}

Progress(fn, openFiles) ==
  [fn |-> fn, openFiles |-> openFiles, i |-> 1,
   isCancellationRequested |-> FALSE, done |-> FALSE]

InitCancel ==
  /\ \/ /\ \E n \in 1..MaxPatterns : rPatterns \in [1..n -> PatternConfigs]
        /\ call = Progress("runAnalysis", <<>>)
     \/ /\ \E n \in 1..MaxPatterns : rPatterns \in [1..n -> OpenFilePatternConfigs]
        /\ \E n \in 1..MaxFiles :
             call \in {Progress("scanAllOpenFiles", files) :
                         files \in [1..n -> OpenFiles]}
  /\ returned = Undefined
  /\ rToolCheck = AllAvailable
  /\ rResult = NothingGathered
  /\ mFinding = Undefined
  /\ mIgnored = <<>>
  /\ mResult = UndefinedId
  /\ sStr1 = <<>>
  /\ sStr2 = <<>>
  /\ sResult = Undefined
  /\ results = <<>>
  /\ findingsByFilePath = <<>>
  /\ ignoredFindings = {}
  /\ ignoredFindingObjects = <<>>
  /\ ignoredFindingsByWorkspace = <<>>
  /\ storeFile = <<>>
  /\ nextId = 1
  /\ lastOp = <<"progress">>
  /\ run = IdleRun
  /\ picker = ClosedPicker
  /\ acknowledged = {}
  /\ NoUi

\* the user presses the cancel button of the notification
RequestCancellation ==
  /\ ~ call.done
  /\ ~ call.isCancellationRequested
  /\ call' = [call EXCEPT !.isCancellationRequested = TRUE]
  /\ lastOp' = <<"cancel">>
  /\ UNCHANGED <<results, findingsByFilePath, ignoredFindings,
                 ignoredFindingObjects, ignoredFindingsByWorkspace, storeFile,
                 nextId, returned, uiVars, matchVars, simVars, runVars, asyncVars,
                 acknowledged>>

\* one iteration of the loop of GrepService.runAnalysis over the filtered
\* patterns: the token of the progress is not handed to runAnalysis
ExecuteNextPattern ==
  LET filtered == FilteredPatterns(rPatterns, rToolCheck)
  IN /\ call.fn = "runAnalysis"
     /\ ~ call.done
     /\ rResult' = RunPatterns(rPatterns, <<filtered[call.i]>>, 1, rResult)
     /\ call' = [call EXCEPT !.i = @ + 1, !.done = call.i + 1 > Len(filtered)]
     /\ lastOp' = <<"pattern", call.i>>
     /\ UNCHANGED <<results, findingsByFilePath, ignoredFindings,
                    ignoredFindingObjects, ignoredFindingsByWorkspace, storeFile,
                    nextId, returned, uiVars, rPatterns, rToolCheck, matchVars,
                    simVars,
                    asyncVars, acknowledged>>

\* one iteration of the loop of scanAllOpenFiles: the token is tested, then
\* scanSingleFile runs and, with findings, replaces the results shown
ScanNextOpenFile ==
  LET fileResults == ScanSingleFile(rPatterns, call.openFiles[call.i])
  IN /\ call.fn = "scanAllOpenFiles"
     /\ ~ call.done
     /\ IF call.isCancellationRequested
        THEN /\ call' = [call EXCEPT !.done = TRUE]
             /\ lastOp' = <<"break", call.i>>
             /\ UNCHANGED rResult
        ELSE /\ call' = [call EXCEPT !.i = @ + 1,
                                     !.done = call.i + 1 > Len(call.openFiles)]
             /\ lastOp' = <<"file", call.i>>
             /\ rResult' = IF Len(fileResults) > 0
                           THEN [rResult EXCEPT !.allResults = fileResults,
                                                !.executed = Append(@, call.i)]
                           ELSE [rResult EXCEPT !.executed = Append(@, call.i)]
     /\ UNCHANGED <<results, findingsByFilePath, ignoredFindings,
                    ignoredFindingObjects, ignoredFindingsByWorkspace, storeFile,
                    nextId, returned, uiVars, rPatterns, rToolCheck, matchVars,
                    simVars,
                    asyncVars, acknowledged>>

NextCancel ==
  \/ RequestCancellation
  \/ ExecuteNextPattern
  \/ ScanNextOpenFile

SpecCancel == InitCancel /\ [][NextCancel]_vars

(***************************************************************************)
(* The commands step by step: a run yields at every await of               *)
(* IdService.enhanceFinding (a file read), the manager at its quick pick;  *)
(* an ignore runs to its end without yielding.  The tree refresh that an   *)
(* ignore or un-ignore triggers changes the id set only and is taken with  *)
(* it.                                                                     *)
(***************************************************************************)
\* the loops skip, without yielding, the findings whose id is in the set
RECURSIVE SkipKnown(_, _, _)
SkipKnown(findings, i, ids) ==
  IF i > Len(findings) THEN i
  ELSE IF findings[i].id \in ids THEN SkipKnown(findings, i + 1, ids)
  ELSE i

\* updateFindings from its start to its first await, or to its end
EnterUpdateFindings(folder, found, ids) ==
  LET j == SkipKnown(found, 1, ids)
  IN IF j > Len(found)
     THEN [run |-> IdleRun, byPath |-> GroupByFilePath(<<>>)]
     ELSE [run |-> [stage |-> "updating", folder |-> folder, found |-> found,
                    i |-> j, kept |-> <<>>],
           byPath |-> EmptyMap]

\* resultsProvider.update from its start to the first await of
\* getFilteredFindings; without one, control goes on into updateFindings
EnterUpdate(folder, found, ids, byPath) ==
  LET j == SkipKnown(found, 1, ids)
  IN IF j > Len(found)
     THEN EnterUpdateFindings(folder, found, ids)
     ELSE [run |-> [stage |-> "filtering", folder |-> folder, found |-> found,
                    i |-> j, kept |-> <<>>],
           byPath |-> byPath]

LastOpOfRun(r, folder) ==
  IF r.stage = "idle" THEN <<"runAnalysis", folder>> ELSE <<"await", folder>>

\* the command is started and awaits grepService.runAnalysis
StartRunAnalysis(workspaceFolder) ==
  /\ run = IdleRun
  /\ nextId <= MaxIds
  /\ run' = [IdleRun EXCEPT !.stage = "scanning", !.folder = workspaceFolder]
  /\ lastOp' = <<"await", workspaceFolder>>
  /\ UNCHANGED <<results, findingsByFilePath, ignoredFindings,
                 ignoredFindingObjects, ignoredFindingsByWorkspace, storeFile,
                 nextId, picker, acknowledged, matchVars, simVars, runVars, callVars, uiVars>>

\* grepService.runAnalysis returns; resultsProvider.update stores the list
ScanReturns(matches) ==
  LET found == RunAnalysis(matches, nextId)
      entered == EnterUpdate(run.folder, found, ignoredFindings, findingsByFilePath)
  IN /\ run.stage = "scanning"
     /\ nextId + Cardinality(matches) - 1 <= MaxIds
     /\ results' = found
     /\ nextId' = nextId + Len(found)
     /\ run' = entered.run
     /\ findingsByFilePath' = entered.byPath
     /\ lastOp' = LastOpOfRun(entered.run, run.folder)
     /\ UNCHANGED <<ignoredFindings, ignoredFindingObjects,
                    ignoredFindingsByWorkspace, storeFile, picker,
                    acknowledged, matchVars, simVars, runVars, callVars, uiVars>>

\* the finding at run.i, enhanced, has a matching record
MatchedAtResume ==
  FindMatchingIgnoredFinding(EnhanceFinding(run.found[run.i]),
                             ignoredFindingObjects) # UndefinedId

\* the id set after the finding at run.i has been matched
IdsAtResume ==
  IF MatchedAtResume THEN ignoredFindings \cup {run.found[run.i].id}
  ELSE ignoredFindings

\* getFilteredFindings resumes after an await
FilterResume ==
  LET j == SkipKnown(run.found, run.i + 1, IdsAtResume)
      entered == IF j > Len(run.found)
                 THEN EnterUpdateFindings(run.folder, run.found, IdsAtResume)
                 ELSE [run |-> [run EXCEPT !.i = j], byPath |-> findingsByFilePath]
  IN /\ run.stage = "filtering"
     /\ ignoredFindings' = IdsAtResume
     /\ run' = entered.run
     /\ findingsByFilePath' = entered.byPath
     /\ lastOp' = LastOpOfRun(entered.run, run.folder)
     /\ UNCHANGED <<results, ignoredFindingObjects, ignoredFindingsByWorkspace,
                    storeFile, nextId, picker, acknowledged, matchVars, simVars, runVars, callVars, uiVars>>

\* updateFindings resumes after an await
UpdateResume ==
  LET kept == IF MatchedAtResume THEN run.kept
              ELSE Append(run.kept, EnhanceFinding(run.found[run.i]))
      j == SkipKnown(run.found, run.i + 1, IdsAtResume)
      after == IF j > Len(run.found) THEN IdleRun
               ELSE [run EXCEPT !.i = j, !.kept = kept]
  IN /\ run.stage = "updating"
     /\ ignoredFindings' = IdsAtResume
     /\ run' = after
     /\ findingsByFilePath' = IF j > Len(run.found) THEN GroupByFilePath(kept)
                              ELSE findingsByFilePath
     /\ lastOp' = LastOpOfRun(after, run.folder)
     /\ UNCHANGED <<results, ignoredFindingObjects, ignoredFindingsByWorkspace,
                    storeFile, nextId, picker, acknowledged, matchVars, simVars, runVars, callVars, uiVars>>

\* showIgnoredFindingsManager up to its await of showQuickPick
OpenIgnoredFindingsManager(workspaceFolder) ==
  /\ ~ picker.open
  /\ workspaceFolder \in DOMAIN ignoredFindingsByWorkspace
  /\ ignoredFindingsByWorkspace[workspaceFolder] # <<>>
  /\ picker' = [open |-> TRUE, folder |-> workspaceFolder,
                items |-> ignoredFindingsByWorkspace[workspaceFolder]]
  /\ lastOp' = <<"await", workspaceFolder>>
  /\ UNCHANGED <<results, findingsByFilePath, ignoredFindings,
                 ignoredFindingObjects, ignoredFindingsByWorkspace, storeFile,
                 nextId, run, acknowledged, matchVars, simVars, runVars, callVars, uiVars>>

\* variant: the list written back is the one copied when the pick opened
PickItems_WritesSnapshot(selected) ==
  LET items == KeepIndices(picker.items, selected, 1)
      ids == {items[k].id : k \in 1..Len(items)}
      left == KeepIndices(picker.items, (1..Len(picker.items)) \ selected, 1)
      removed == [decorator EXCEPT
                    !.ignoredFindingsByWorkspace[picker.folder] = left,
                    !.ignoredFindings = @ \ ids,
                    !.ignoredFindingObjects =
                       KeepIndices(@, {k \in 1..Len(@) : @[k].id \notin ids}, 1)]
      saved == SaveIgnoredFindings(storeFile, removed, picker.folder)
  IN /\ picker.open
     /\ picker' = ClosedPicker
     /\ IF selected = {}
        THEN /\ lastOp' = <<"dismissed", picker.folder>>
             /\ UNCHANGED <<findingsByFilePath, ignoredFindings,
                            ignoredFindingObjects, ignoredFindingsByWorkspace,
                            storeFile, acknowledged>>
        ELSE /\ storeFile' = saved.files
             /\ SetDecorator(UpdateDecorationsAfterIgnore(saved.d, results))
             /\ acknowledged' = {a \in acknowledged : a.id \notin ids}
             /\ lastOp' = <<"unignore", picker.folder>>
     /\ UNCHANGED <<results, nextId, run, matchVars, simVars, runVars, callVars, uiVars>>

\* showQuickPick returns the picked items (positions selected of the items
\* shown); with a selection the records are removed, by id, from the lists
\* as they are now, and the list is saved
PickItems(selected) ==
  LET items == KeepIndices(picker.items, selected, 1)
      ids == {items[k].id : k \in 1..Len(items)}
      removed == RemoveSelected(decorator, picker.folder, items)
      saved == SaveIgnoredFindings(storeFile, removed, picker.folder)
  IN /\ picker.open
     /\ picker' = ClosedPicker
     /\ IF selected = {}
        THEN /\ lastOp' = <<"dismissed", picker.folder>>
             /\ UNCHANGED <<findingsByFilePath, ignoredFindings,
                            ignoredFindingObjects, ignoredFindingsByWorkspace,
                            storeFile, acknowledged>>
        ELSE /\ storeFile' = saved.files
             /\ SetDecorator(UpdateDecorationsAfterIgnore(saved.d, results))
             /\ acknowledged' = {a \in acknowledged : a.id \notin ids}
             /\ lastOp' = <<"unignore", picker.folder>>
     /\ UNCHANGED <<results, nextId, run, matchVars, simVars, runVars, callVars, uiVars>>

NextAsync ==
  \/ \E w \in WorkspaceFolders : StartRunAnalysis(w)
  \/ \E matches \in ScanOutputs(run.folder) : ScanReturns(matches)
  \/ FilterResume
  \/ UpdateResume
  \/ \E findingId \in 1..MaxIds : IgnoreFinding(findingId)
  \/ \E w \in WorkspaceFolders : OpenIgnoredFindingsManager(w)
  \/ \E selected \in SUBSET (1..Len(picker.items)) : PickItems(selected)

SpecAsync == Init /\ [][NextAsync]_vars

(***************************************************************************)
(* Calls that overlap: updateFindings is started by scanSingleFile and by  *)
(* the editor listeners without the caller waiting for the call before,    *)
(* and yields at every await of IdService.enhanceFinding; the              *)
(* greppy.ignoreFinding command of a hover link is handled some time after *)
(* the click.  asyncCalls lists the calls in the order they were started.  *)
(***************************************************************************)
\* the grouping loop of updateFindings on the map as it is: every finding is
\* pushed to the list of its file
RECURSIVE PushByFilePath(_, _)
PushByFilePath(byPath, findings) ==
  IF findings = <<>> THEN byPath
  ELSE LET filePath == Head(findings).filePath
           list == IF MapHas(byPath, filePath) THEN byPath[filePath] ELSE <<>>
       IN PushByFilePath(MapSet(byPath, filePath, Append(list, Head(findings))),
                         Tail(findings))

\* an updateFindings call from its start to its first await, or to its end:
\* the map is cleared, and the findings whose id is ignored are skipped
BeginUpdateFindings(findings, ids) ==
  LET j == SkipKnown(findings, 1, ids)
  IN [fn |-> "updateFindings", findings |-> findings, i |-> j,
      enhancedFindings |-> <<>>, done |-> j > Len(findings)]

\* scanSingleFile has its fileResults: resultsProvider.update stores them,
\* then updateFindings is started
StartUpdateFindings(matches) ==
  LET found == RunAnalysis(matches, nextId)
      ids == GetFilteredFindings(decorator, found).ignoredFindings
  IN /\ Len(asyncCalls) < MaxCalls
     /\ matches # {}
     /\ nextId + Cardinality(matches) - 1 <= MaxIds
     /\ results' = found
     /\ nextId' = nextId + Len(found)
     /\ ignoredFindings' = ids
     /\ findingsByFilePath' = EmptyMap
     /\ asyncCalls' = Append(asyncCalls, BeginUpdateFindings(found, ids))
     /\ lastOp' = <<"updateFindings", Len(asyncCalls) + 1>>
     /\ UNCHANGED <<ignoredFindingObjects, ignoredFindingsByWorkspace, storeFile,
                    tree, matchVars, simVars, runVars, callVars, asyncVars,
                    acknowledged>>

\* an editor listener finds results of a manual scan and starts
\* updateFindings(resultsProvider.getResults())
ReapplyResults ==
  /\ Len(asyncCalls) < MaxCalls
  /\ Len(results) > 0
  /\ findingsByFilePath' = EmptyMap
  /\ asyncCalls' = Append(asyncCalls, BeginUpdateFindings(results, ignoredFindings))
  /\ lastOp' = <<"updateFindings", Len(asyncCalls) + 1>>
  /\ UNCHANGED <<results, ignoredFindings, ignoredFindingObjects,
                 ignoredFindingsByWorkspace, storeFile, nextId, tree, matchVars,
                 simVars, runVars, callVars, asyncVars, acknowledged>>

\* the updateFindings call at position c resumes after an await, up to its
\* next await or through the grouping loop to its end
ResumeUpdateFindings(c) ==
  LET this == asyncCalls[c]
      enhancedFinding == EnhanceFinding(this.findings[this.i])
      matched == FindMatchingIgnoredFinding(enhancedFinding, ignoredFindingObjects)
                   # UndefinedId
      ids == IF matched THEN ignoredFindings \cup {enhancedFinding.id}
             ELSE ignoredFindings
      enhancedFindings == IF matched THEN this.enhancedFindings
                          ELSE Append(this.enhancedFindings, enhancedFinding)
      j == SkipKnown(this.findings, this.i + 1, ids)
  IN /\ this.fn = "updateFindings"
     /\ ~ this.done
     /\ ignoredFindings' = ids
     /\ findingsByFilePath' =
          IF j > Len(this.findings)
          THEN PushByFilePath(findingsByFilePath, enhancedFindings)
          ELSE findingsByFilePath
     /\ asyncCalls' = [asyncCalls EXCEPT ![c] =
                         [this EXCEPT !.i = j,
                                      !.enhancedFindings = enhancedFindings,
                                      !.done = j > Len(this.findings)]]
     /\ lastOp' = <<"resume", c>>
     /\ UNCHANGED <<results, ignoredFindingObjects, ignoredFindingsByWorkspace,
                    storeFile, nextId, tree, matchVars, simVars, runVars,
                    callVars, asyncVars, acknowledged>>

\* the user clicks "Ignore this issue" in the hover of a decorated finding
ClickIgnoreFinding(findingId) ==
  /\ Len(asyncCalls) < MaxCalls
  /\ \E f \in StoredFindings(findingsByFilePath) : f.id = findingId
  /\ asyncCalls' = Append(asyncCalls, [fn |-> "ignoreFinding",
                                       findingId |-> findingId, done |-> FALSE])
  /\ lastOp' = <<"click", findingId>>
  /\ UNCHANGED <<results, findingsByFilePath, ignoredFindings,
                 ignoredFindingObjects, ignoredFindingsByWorkspace, storeFile,
                 nextId, tree, matchVars, simVars, runVars, callVars,
                 asyncVars, acknowledged>>

\* ignoreFinding(findingId) on the collections as they are: without the
\* finding in findingsByFilePath the method returns at once
IgnoreFindingIn(d, files, findingId, storedResults) ==
  LET hits == {f \in StoredFindings(d.findingsByFilePath) : f.id = findingId}
      findingToIgnore == CHOOSE f \in hits : TRUE
      added == AddToWorkspaceIgnored(d, findingToIgnore, findingToIgnore.filePath)
      saved == SaveIgnoredFindings(files, added, findingToIgnore.filePath)
  IN IF hits = {} THEN [d |-> d, files |-> files]
     ELSE [d |-> UpdateDecorationsAfterIgnore(saved.d, storedResults),
           files |-> saved.files]

\* the command of the click at position c is handled
HandleIgnoreFinding(c) ==
  LET this == asyncCalls[c]
      ignored == IgnoreFindingIn(decorator, storeFile, this.findingId, results)
  IN /\ this.fn = "ignoreFinding"
     /\ ~ this.done
     /\ Len(ignoredFindingObjects) < MaxIgnored
     /\ SetDecorator(ignored.d)
     /\ storeFile' = ignored.files
     /\ asyncCalls' = [asyncCalls EXCEPT ![c] = [this EXCEPT !.done = TRUE]]
     /\ lastOp' = <<"ignoreFinding", this.findingId>>
     /\ UNCHANGED <<results, nextId, tree, matchVars, simVars, runVars, callVars,
                    asyncVars, acknowledged>>

NextOverlap ==
  \/ \E w \in WorkspaceFolders : \E matches \in ScanOutputs(w) :
       StartUpdateFindings(matches)
  \/ ReapplyResults
  \/ \E c \in 1..Len(asyncCalls) : ResumeUpdateFindings(c)
  \/ \E findingId \in 1..MaxIds : ClickIgnoreFinding(findingId)
  \/ \E c \in 1..Len(asyncCalls) : HandleIgnoreFinding(c)

SpecOverlap == Init /\ [][NextOverlap]_vars

(***************************************************************************)
(* GrepResultsProvider: update and refresh yield at their await of         *)
(* getFilteredResults, the severity toggles run at once.  tree holds the   *)
(* three filters and showWelcomeView, asyncCalls the update and refresh    *)
(* calls in the order they were started.                                   *)
(***************************************************************************)
\* the severities the pattern sets give to their patterns
Severities == {"info", "warning", "medium", "critical"}

\* a finding with the severity of its pattern
WithSeverity(finding, severity) ==
  [x \in (DOMAIN finding) \cup {"severity"} |->
     IF x = "severity" THEN severity ELSE finding[x]]

\* the fields of a new GrepResultsProvider
NewTree ==
  [showInfo |-> TRUE, showWarning |-> TRUE, showCritical |-> TRUE,
   showWelcomeView |-> TRUE]

\* the test of the severity filter of getFilteredResults
PassesSeverity(t, finding) ==
  CASE finding.severity = "info"     -> t.showInfo
    [] finding.severity = "warning"  -> t.showWarning
    [] finding.severity = "critical" -> t.showCritical
    [] OTHER                         -> TRUE

\* getFilteredResults on a result list: the findings returned (kept) and
\* the id set afterwards
GetFilteredResults(d, t, storedResults) ==
  LET nonIgnoredResults == GetFilteredFindings(d, storedResults)
  IN [kept |-> KeepIndices(nonIgnoredResults.kept,
                           {i \in 1..Len(nonIgnoredResults.kept) :
                              PassesSeverity(t, nonIgnoredResults.kept[i])}, 1),
      ignoredFindings |-> nonIgnoredResults.ignoredFindings]

\* what getChildren returns at the root
GetChildren(d, t, storedResults) ==
  IF t.showWelcomeView THEN "welcome"
  ELSE IF Len(GetFilteredResults(d, t, storedResults).kept) = 0 THEN "noResults"
  ELSE "patternGroups"

InitTree ==
  /\ storeFile \in InitialStoreFiles
  /\ results = <<>>
  /\ findingsByFilePath = LoadIgnoredFindings(storeFile).findingsByFilePath
  /\ ignoredFindings = LoadIgnoredFindings(storeFile).ignoredFindings
  /\ ignoredFindingObjects = LoadIgnoredFindings(storeFile).ignoredFindingObjects
  /\ ignoredFindingsByWorkspace = LoadIgnoredFindings(storeFile).ignoredFindingsByWorkspace
  /\ nextId = 1
  /\ lastOp = <<"activate">>
  /\ mFinding = Undefined
  /\ mIgnored = <<>>
  /\ mResult = UndefinedId
  /\ sStr1 = <<>>
  /\ sStr2 = <<>>
  /\ sResult = Undefined
  /\ run = IdleRun
  /\ picker = ClosedPicker
  /\ acknowledged = {}
  /\ NoRunCall
  /\ NoCall
  /\ asyncCalls = <<>>
  /\ tree = NewTree

\* update(results, patterns) up to its await: the list is stored
StartUpdate(matches, severity) ==
  LET found == RunAnalysis(matches, nextId)
      list == [i \in 1..Len(found) |-> WithSeverity(found[i], severity)]
  IN /\ Len(asyncCalls) < MaxCalls
     /\ nextId + Cardinality(matches) - 1 <= MaxIds
     /\ results' = list
     /\ nextId' = nextId + Len(list)
     /\ asyncCalls' = Append(asyncCalls, [fn |-> "update", findings |-> list,
                                          done |-> FALSE])
     /\ lastOp' = <<"update", Len(asyncCalls) + 1>>
     /\ UNCHANGED <<findingsByFilePath, ignoredFindings, ignoredFindingObjects,
                    ignoredFindingsByWorkspace, storeFile, tree, matchVars,
                    simVars, runVars, callVars, asyncVars, acknowledged>>

\* refresh() up to its await; with no stored results it ends at once
StartRefresh ==
  /\ Len(asyncCalls) < MaxCalls
  /\ asyncCalls' = Append(asyncCalls, [fn |-> "refresh", findings |-> results,
                                       done |-> Len(results) = 0])
  /\ lastOp' = <<"refresh", Len(asyncCalls) + 1>>
  /\ UNCHANGED <<results, findingsByFilePath, ignoredFindings,
                 ignoredFindingObjects, ignoredFindingsByWorkspace, storeFile,
                 nextId, tree, matchVars, simVars, runVars, callVars, asyncVars,
                 acknowledged>>

\* the update or refresh call at position c has its filtered results (of
\* the list it handed to getFilteredFindings) and sets showWelcomeView
FinishFiltering(c) ==
  LET this == asyncCalls[c]
      filteredResults == GetFilteredResults(decorator, tree, this.findings)
  IN /\ this.fn \in {"update", "refresh"}
     /\ ~ this.done
     /\ ignoredFindings' = filteredResults.ignoredFindings
     /\ tree' = [tree EXCEPT !.showWelcomeView = Len(filteredResults.kept) = 0]
     /\ asyncCalls' = [asyncCalls EXCEPT ![c] = [this EXCEPT !.done = TRUE]]
     /\ lastOp' = <<"filtered", c>>
     /\ UNCHANGED <<results, findingsByFilePath, ignoredFindingObjects,
                    ignoredFindingsByWorkspace, storeFile, nextId, matchVars,
                    simVars, runVars, callVars, asyncVars, acknowledged>>

\* greppy.toggleInfoSeverity, greppy.toggleWarningSeverity and
\* greppy.toggleCriticalSeverity
ToggleSeverity(filter) ==
  /\ tree' = [tree EXCEPT ![filter] = ~ @]
  /\ lastOp' = <<"toggle", filter>>
  /\ UNCHANGED <<results, findingsByFilePath, ignoredFindings,
                 ignoredFindingObjects, ignoredFindingsByWorkspace, storeFile,
                 nextId, asyncCalls, matchVars, simVars, runVars, callVars,
                 asyncVars, acknowledged>>

\* the scans whose results the tree is given
TreeScans ==
  {S \in ScanOutputs(WsW) : \A m \in S : m.matchedContent = LineS0}

NextTree ==
  \/ \E matches \in TreeScans : \E severity \in Severities :
       StartUpdate(matches, severity)
  \/ StartRefresh
  \/ \E c \in 1..Len(asyncCalls) : FinishFiltering(c)
  \/ \E filter \in {"showInfo", "showWarning", "showCritical"} :
       ToggleSeverity(filter)

SpecTree == InitTree /\ [][NextTree]_vars

(***************************************************************************)
(* One call of an output parser of GrepService on a bounded output         *)
(***************************************************************************)
\* white space as String.prototype.trim, parseInt and \s see it
WhiteSpace == {" ", "\t", "\n", "\r"}

Digits == {"0", "1", "2", "3", "4", "5", "6", "7", "8", "9"}

DigitValue(c) ==
  CASE c = "0" -> 0 [] c = "1" -> 1 [] c = "2" -> 2 [] c = "3" -> 3
    [] c = "4" -> 4 [] c = "5" -> 5 [] c = "6" -> 6 [] c = "7" -> 7
    [] c = "8" -> 8 [] c = "9" -> 9

RECURSIVE TrimStart(_)
TrimStart(s) ==
  IF s # <<>> /\ s[1] \in WhiteSpace THEN TrimStart(Tail(s)) ELSE s

RECURSIVE TrimEnd(_)
TrimEnd(s) ==
  IF s # <<>> /\ s[Len(s)] \in WhiteSpace
  THEN TrimEnd(SubSeq(s, 1, Len(s) - 1))
  ELSE s

\* String.prototype.trim
Trim(s) == TrimEnd(TrimStart(s))

\* String.prototype.indexOf(sub, from - 1) + 1: the first position at or
\* after from where sub starts, 0 when there is none
IndexFrom(s, sub, from) ==
  LET at == {p \in from..(Len(s) - Len(sub) + 1) :
               SubSeq(s, p, p + Len(sub) - 1) = sub}
  IN IF at = {} THEN 0 ELSE CHOOSE p \in at : \A q \in at : p <= q

\* String.prototype.split with a non-empty separator
RECURSIVE Split(_, _)
Split(s, sep) ==
  LET p == IndexFrom(s, sep, 1)
  IN IF p = 0 THEN <<s>>
     ELSE <<SubSeq(s, 1, p - 1)>> \o Split(SubSeq(s, p + Len(sep), Len(s)), sep)

\* the value of a sequence of digits
RECURSIVE DecimalValue(_)
DecimalValue(d) ==
  IF d = <<>> THEN 0
  ELSE 10 * DecimalValue(SubSeq(d, 1, Len(d) - 1)) + DigitValue(d[Len(d)])

\* the longest run of characters of the set chars that starts at position p
RunFrom(s, p, chars) ==
  LET stops == {q \in p..(Len(s) + 1) : q = Len(s) + 1 \/ s[q] \notin chars}
      stop == CHOOSE q \in stops : \A x \in stops : q <= x
  IN SubSeq(s, p, stop - 1)

\* parseInt(s, 10): leading white space is skipped, a sign is accepted, the
\* longest run of digits is the number and what follows it is ignored
ParseInt(s) ==
  LET t == TrimStart(s)
      signed == t # <<>> /\ t[1] \in {"+", "-"}
      body == IF signed THEN Tail(t) ELSE t
      digits == RunFrom(body, 1, Digits)
  IN IF digits = <<>> THEN [isNaN |-> TRUE, value |-> 0]
     ELSE [isNaN |-> FALSE,
           value |-> IF signed /\ t[1] = "-" THEN 0 - DecimalValue(digits)
                     ELSE DecimalValue(digits)]

NewLine == <<"\n">>

\* the loop of parseRipgrepOutput over the lines: a line without two colons
\* or whose line number is NaN is skipped
RECURSIVE ParseRipgrepLines(_, _, _, _)
ParseRipgrepLines(lines, i, name, acc) ==
  IF i > Len(lines) THEN acc
  ELSE LET line == lines[i]
           firstColonIndex == IndexFrom(line, <<":">>, 1)
           secondColonIndex == IndexFrom(line, <<":">>, firstColonIndex + 1)
           filePath == SubSeq(line, 1, firstColonIndex - 1)
           lineNumber == ParseInt(SubSeq(line, firstColonIndex + 1,
                                         secondColonIndex - 1))
           matchedContent == Trim(SubSeq(line, secondColonIndex + 1, Len(line)))
       IN IF firstColonIndex = 0 \/ secondColonIndex = 0 \/ lineNumber.isNaN
          THEN ParseRipgrepLines(lines, i + 1, name, acc)
          ELSE ParseRipgrepLines(lines, i + 1, name,
                 Append(acc, RawFinding(Len(acc) + 1, name, filePath,
                                        lineNumber.value, matchedContent)))

\* parseRipgrepOutput
ParseRipgrepOutput(output, name) ==
  IF Trim(output) = <<>> THEN <<>>
  ELSE ParseRipgrepLines(Split(Trim(output), NewLine), 1, name, <<>>)

Delimiter == <<"=", "=", "=", "=">>
FileLabel == <<"F", "i", "l", "e", ":", " ">>
LineLabel == <<"L", "i", "n", "e", ":", " ">>

\* match.match(/File: ([^\s]+)/): the capture of the leftmost match, or
\* Undefined
MatchFile(match) ==
  LET at == {p \in 1..Len(match) :
               /\ p + Len(FileLabel) <= Len(match)
               /\ SubSeq(match, p, p + Len(FileLabel) - 1) = FileLabel
               /\ match[p + Len(FileLabel)] \notin WhiteSpace}
      p == CHOOSE x \in at : \A y \in at : x <= y
      rest == SubSeq(match, p + Len(FileLabel), Len(match))
      stops == {q \in 1..(Len(rest) + 1) :
                  q = Len(rest) + 1 \/ rest[q] \in WhiteSpace}
  IN IF at = {} THEN Undefined
     ELSE SubSeq(rest, 1, (CHOOSE q \in stops : \A x \in stops : q <= x) - 1)

\* match.match(/Line: (\d+)(?:-\d+)?/): the capture of the leftmost match,
\* or Undefined
MatchLine(match) ==
  LET at == {p \in 1..Len(match) :
               /\ p + Len(LineLabel) <= Len(match)
               /\ SubSeq(match, p, p + Len(LineLabel) - 1) = LineLabel
               /\ match[p + Len(LineLabel)] \in Digits}
      p == CHOOSE x \in at : \A y \in at : x <= y
  IN IF at = {} THEN Undefined
     ELSE RunFrom(match, p + Len(LineLabel), Digits)

\* for (let i = 3; i < lines.length; i++): the first line, trimmed, that is
\* not empty, from the fourth line of the block on; "" when there is none
RECURSIVE FirstContent(_, _)
FirstContent(lines, i) ==
  IF i > Len(lines) THEN <<>>
  ELSE IF Trim(lines[i]) # <<>> THEN Trim(lines[i])
  ELSE FirstContent(lines, i + 1)

\* the loop of parseWeggliOutput over the blocks
RECURSIVE ParseWeggliMatches(_, _, _, _)
ParseWeggliMatches(matches, i, name, acc) ==
  IF i > Len(matches) THEN acc
  ELSE LET match == matches[i]
           fileMatch == MatchFile(match)
           lineMatch == MatchLine(match)
           lineNumber == ParseInt(lineMatch)
           matchedContent == FirstContent(Split(match, NewLine), 4)
       IN IF fileMatch = Undefined \/ lineMatch = Undefined \/ lineNumber.isNaN
          THEN ParseWeggliMatches(matches, i + 1, name, acc)
          ELSE ParseWeggliMatches(matches, i + 1, name,
                 Append(acc, RawFinding(Len(acc) + 1, name, fileMatch,
                                        lineNumber.value, matchedContent)))

\* parseWeggliOutput: output.split("====").slice(1) leaves out what
\* precedes the first delimiter
ParseWeggliOutput(output, name) ==
  IF Trim(output) = <<>> THEN <<>>
  ELSE ParseWeggliMatches(Tail(Split(output, Delimiter)), 1, name, <<>>)

\* the characters of the ripgrep outputs handed to the parser
OutputAlphabet == {"f", ":", "7", " ", "\n"}

RipgrepOutputs == UNION {[1..n -> OutputAlphabet] : n \in 0..MaxOutput}

\* the blocks of the weggli outputs handed to the parser: a File line or
\* none, a Line line (a line or a range) or none, then the content lines
BlockShapes ==
  [file : {<<>>, <<"f">>, <<"g">>},
   line : {<<>>, <<"7">>, <<"7", "-", "9">>},
   content : {<<>>, <<<<"x">>>>, <<<<>>, <<" ", "x">>, <<"y">>>>}]

\* join the strings of a list with a separator
RECURSIVE Join(_, _)
Join(list, sep) ==
  IF list = <<>> THEN <<>>
  ELSE IF Len(list) = 1 THEN list[1]
  ELSE list[1] \o sep \o Join(Tail(list), sep)

\* the text of a block: its lines, each ended by a newline
BlockText(block) ==
  LET header == (IF block.file = <<>> THEN <<>> ELSE <<FileLabel \o block.file>>)
                  \o (IF block.line = <<>> THEN <<>> ELSE <<LineLabel \o block.line>>)
      lines == header \o block.content
  IN Join(lines, NewLine) \o NewLine

\* the output of weggli for a list of blocks: the blocks separated by a
\* delimiter line, with or without a delimiter line before the first block
WeggliOutput(leading, blocks) ==
  (IF leading THEN Delimiter \o NewLine ELSE <<>>)
    \o Join([k \in 1..Len(blocks) |-> BlockText(blocks[k])], Delimiter \o NewLine)

InitParse ==
  /\ \/ /\ \E output \in RipgrepOutputs :
             call = [fn |-> "parseRipgrepOutput", output |-> output]
     \/ /\ \E n \in 0..MaxBlocks : \E blocks \in [1..n -> BlockShapes] :
             \E leading \in BOOLEAN :
               call = [fn |-> "parseWeggliOutput", leading |-> leading,
                       blocks |-> blocks,
                       output |-> WeggliOutput(leading, blocks)]
  /\ returned = Undefined
  /\ NoRunCall
  /\ mFinding = Undefined
  /\ mIgnored = <<>>
  /\ mResult = UndefinedId
  /\ sStr1 = <<>>
  /\ sStr2 = <<>>
  /\ sResult = Undefined
  /\ results = <<>>
  /\ findingsByFilePath = <<>>
  /\ ignoredFindings = {}
  /\ ignoredFindingObjects = <<>>
  /\ ignoredFindingsByWorkspace = <<>>
  /\ storeFile = <<>>
  /\ nextId = 1
  /\ lastOp = <<"parse">>
  /\ run = IdleRun
  /\ picker = ClosedPicker
  /\ acknowledged = {}
  /\ NoUi

CallParseRipgrepOutput ==
  /\ returned = Undefined
  /\ call.fn = "parseRipgrepOutput"
  /\ returned' = [results |-> ParseRipgrepOutput(call.output, RuleP)]
  /\ UNCHANGED call
  /\ UNCHANGED <<sysVars, matchVars, simVars, runVars, uiVars, asyncVars, acknowledged>>

CallParseWeggliOutput ==
  /\ returned = Undefined
  /\ call.fn = "parseWeggliOutput"
  /\ returned' = [results |-> ParseWeggliOutput(call.output, RuleP)]
  /\ UNCHANGED call
  /\ UNCHANGED <<sysVars, matchVars, simVars, runVars, uiVars, asyncVars, acknowledged>>

NextParse ==
  \/ CallParseRipgrepOutput
  \/ CallParseWeggliOutput

SpecParse == InitParse /\ [][NextParse]_vars

\* the parser has returned
Parsed == returned # Undefined

(***************************************************************************)
(* One pass of the enhancement loop of runAnalysis over bounded files      *)
(***************************************************************************)
\* a file of the disk: readable with its text, or not readable
ReadableFile(text) == [readable |-> TRUE, content |-> text]
UnreadableFile == [readable |-> FALSE, content |-> <<>>]

\* Array.prototype.slice(start, end) with 0 <= start and 0 <= end <= length
Slice(list, start, end) ==
  IF start >= end THEN <<>> ELSE SubSeq(list, start + 1, end)

\* variant: the window is not cut at the first and at the last line
GetContextContent_NoClamp(files, filePath, lineNumber, contextLines) ==
  LET lines == Split(files[filePath].content, NewLine)
      startLine == lineNumber - contextLines
      endLine == lineNumber + contextLines
  IN IF ~ files[filePath].readable THEN Undefined
     ELSE [content |-> Join(Slice(lines, Max(0, startLine - 1),
                                  Min(Len(lines), endLine)), NewLine),
           startLine |-> startLine, endLine |-> endLine]

\* getContextContent: Undefined when reading the file fails
GetContextContent(files, filePath, lineNumber, contextLines) ==
  LET lines == Split(files[filePath].content, NewLine)
      startLine == Max(1, lineNumber - contextLines)
      endLine == Min(Len(lines), lineNumber + contextLines)
  IN IF ~ files[filePath].readable THEN Undefined
     ELSE [content |-> Join(Slice(lines, startLine - 1, endLine), NewLine),
           startLine |-> startLine, endLine |-> endLine]

\* enhanceFinding on a disk: the context fields are set when
\* getContextContent returned a context, then the persistent id is set
EnhanceFindingIn(files, finding) ==
  LET context == GetContextContent(files, finding.filePath, finding.lineNumber,
                                   ContextLines)
  IN IF context = Undefined THEN EnhanceFinding(finding)
     ELSE [contextContent |-> context.content, contextStart |-> context.startLine,
           contextEnd |-> context.endLine] @@ EnhanceFinding(finding)

\* variant: a finding whose file cannot be read ends the loop
RECURSIVE EnhanceResults_StopsAtUnreadable(_, _, _, _)
EnhanceResults_StopsAtUnreadable(files, found, i, allResults) ==
  IF i > Len(found) THEN allResults
  ELSE IF ~ files[found[i].filePath].readable THEN allResults
  ELSE EnhanceResults_StopsAtUnreadable(files, found, i + 1,
         Append(allResults, EnhanceFindingIn(files, found[i])))

\* the loop of runAnalysis that enhances the results of a pattern
RECURSIVE EnhanceResults(_, _, _, _)
EnhanceResults(files, found, i, allResults) ==
  IF i > Len(found) THEN allResults
  ELSE EnhanceResults(files, found, i + 1,
         Append(allResults, EnhanceFindingIn(files, found[i])))

\* the texts of the scanned file
FileTexts == UNION {[1..n -> {"a", "\n"}] : n \in 0..MaxFileLen}

\* the results handed to the loop: a match in FileWA, then possibly one in
\* the first line of FileVA
FoundIn(lineNumber, n) ==
  [k \in 1..n |->
     IF k = 1 THEN RawFinding(1, RuleP, FileWA, lineNumber, LineS0)
     ELSE RawFinding(2, RuleP, FileVA, 1, LineS0)]

InitContext ==
  /\ \E scanned \in {ReadableFile(t) : t \in FileTexts} \cup {UnreadableFile} :
       \E other \in {ReadableFile(<<"a">>), UnreadableFile} :
         \E lineNumber \in 1..(MaxFileLen + 2 * ContextLines) : \E n \in 1..2 :
           call = [fn |-> "enhanceResults",
                   files |-> (FileWA :> scanned) @@ (FileVA :> other),
                   found |-> FoundIn(lineNumber, n)]
  /\ returned = Undefined
  /\ NoRunCall
  /\ mFinding = Undefined
  /\ mIgnored = <<>>
  /\ mResult = UndefinedId
  /\ sStr1 = <<>>
  /\ sStr2 = <<>>
  /\ sResult = Undefined
  /\ results = <<>>
  /\ findingsByFilePath = <<>>
  /\ ignoredFindings = {}
  /\ ignoredFindingObjects = <<>>
  /\ ignoredFindingsByWorkspace = <<>>
  /\ storeFile = <<>>
  /\ nextId = 1
  /\ lastOp = <<"enhance">>
  /\ run = IdleRun
  /\ picker = ClosedPicker
  /\ acknowledged = {}
  /\ NoUi

CallEnhanceResults ==
  /\ returned = Undefined
  /\ returned' = [results |-> EnhanceResults(call.files, call.found, 1, <<>>)]
  /\ UNCHANGED call
  /\ UNCHANGED <<sysVars, matchVars, simVars, runVars, uiVars, asyncVars, acknowledged>>

NextContext == CallEnhanceResults

SpecContext == InitContext /\ [][NextContext]_vars

\* the loop has ended
Enhanced == returned # Undefined

(***************************************************************************)
(* Properties of the program (specification Spec)                          *)
(***************************************************************************)
SeqElems(list) == {list[i] : i \in 1..Len(list)}

\* what the results tree shows: getFilteredFindings(results)
TreeFindings == SeqElems(GetFilteredFindings(decorator, results).kept)

\* what the editors decorate
EditorFindings == StoredFindings(findingsByFilePath)

VisibleFindings == TreeFindings \cup EditorFindings

\* the same rule at the same place with the same text
SameMatch(a, b) ==
  /\ a.patternName = b.patternName
  /\ a.filePath = b.filePath
  /\ a.lineNumber = b.lineNumber
  /\ a.matchedContent = b.matchedContent

\* the same rule and text in the same file, dist lines apart
ShiftedBy(a, b, dist) ==
  /\ a.patternName = b.patternName
  /\ a.filePath = b.filePath
  /\ a.matchedContent = b.matchedContent
  /\ Abs(a.lineNumber - b.lineNumber) = dist

Records == SeqElems(ignoredFindingObjects)

\* the records made by an ignore action of this session
SessionRecords == {r \in Records : r.id >= 1}

JustScanned == lastOp[1] = "runAnalysis"

\* C1: Suppression idempotence.  A finding that was ignored and is found
\* again by a re-scan of unchanged code (same rule, file, line and text) is
\* not visible: it is neither returned by getFilteredFindings nor stored in
\* findingsByFilePath.  Stated for every state: no visible finding is the
\* match of a record.
C1_SuppressionIdempotence ==
  \A r \in Records : \A f \in VisibleFindings : ~ SameMatch(r, f)

\* a re-scan has just found, under a fresh id, the match of a record made by
\* an earlier ignore, and it is not shown
C1_Witness ==
  /\ JustScanned
  /\ \E r \in SessionRecords : \E f \in SeqElems(results) :
       SameMatch(r, f) /\ f.id > r.id /\ f \notin VisibleFindings

AllStoresEmpty ==
  /\ ignoredFindingObjects = <<>>
  /\ \A w \in DOMAIN ignoredFindingsByWorkspace : ignoredFindingsByWorkspace[w] = <<>>

FindingWithId(id) == CHOOSE f \in EditorFindings : f.id = id

\* the matches of two result lists are the same, one by one
SameScan(a, b) ==
  /\ Len(a) = Len(b)
  /\ \A i \in 1..Len(a) : SameMatch(a[i], b[i])

C3_NoDuplicateFingerprint ==
  \A w \in DOMAIN ignoredFindingsByWorkspace :
    \A i, j \in 1..Len(ignoredFindingsByWorkspace[w]) :
      i # j => ignoredFindingsByWorkspace[w][i].persistentId
                 # ignoredFindingsByWorkspace[w][j].persistentId

\* C4 as stated: after a finding is ignored, the same finding (same rule,
\* file and text) found LineRange + 1 = 16 lines away by the next re-scan is
\* visible again.
C4_ShiftedBy16Resurfaces ==
  JustScanned =>
    \A r \in SessionRecords : \A f \in SeqElems(results) :
      ShiftedBy(r, f, LineRange + 1) => f \in VisibleFindings

\* C4 as amended: a re-scanned finding with the rule, file and text of a
\* record is suppressed whatever its line, also LineRange + 1 lines away (the
\* exact tier compares fingerprints, which do not contain the line); the line
\* distance decides only for a finding whose fingerprint no record has: when
\* it is more than LineRange lines away from every record, it is visible.
C4_ShiftedStaysSuppressed ==
  JustScanned =>
    \A f \in SeqElems(results) :
      /\ (\E r \in Records : \E dist \in 0..(LineRange + 1) : ShiftedBy(r, f, dist))
           => f \notin VisibleFindings
      /\ (\A r \in Records :
            /\ r.persistentId # f.persistentId
            /\ Abs(r.lineNumber - f.lineNumber) > LineRange)
           => f \in TreeFindings /\ f \in EditorFindings

\* a re-scan found an ignored finding 16 lines away and it stays hidden
C4_Witness ==
  /\ JustScanned
  /\ \E r \in SessionRecords : \E f \in SeqElems(results) :
       /\ ShiftedBy(r, f, LineRange + 1)
       /\ f.id > r.id
       /\ f \notin VisibleFindings

\* C8: After a finding is ignored, a re-scanned finding whose text changed so
\* that its fingerprint differs from the recorded one and its similarity to
\* the recorded text is below 0.70 (edit distance above 0.3 times the longer
\* length) is visible; with several records, this is required of each.
C8_LowSimilarityResurfaces ==
  JustScanned =>
    \A f \in SeqElems(results) :
      (\A r \in Records :
         /\ r.persistentId # f.persistentId
         /\ 10 * LevenshteinDistance(r.matchedContent, f.matchedContent)
              > 3 * Max(Len(r.matchedContent), Len(f.matchedContent)))
        => f \in TreeFindings /\ f \in EditorFindings

\* the text of an ignored finding changed on its line, and the re-scan
\* shows the finding again
C8_Witness ==
  /\ JustScanned
  /\ \E r \in SessionRecords : \E f \in SeqElems(results) :
       /\ r.patternName = f.patternName
       /\ r.filePath = f.filePath
       /\ r.lineNumber = f.lineNumber
       /\ r.matchedContent # f.matchedContent
       /\ f.id > r.id
       /\ Records = {r}
       /\ f \in TreeFindings /\ f \in EditorFindings

(***************************************************************************)
(* Properties of findMatchingIgnoredFinding (specification SpecMatch)      *)
(***************************************************************************)
FirstOf(indices) == CHOOSE i \in indices : \A j \in indices : i <= j

\* the records with the fingerprint of the finding
ExactIdx ==
  {i \in 1..Len(mIgnored) : mIgnored[i].persistentId = mFinding.persistentId}

\* the two paths end in the same segment
SameTrailingSegment(a, b) == Basename(a) = Basename(b)

RuleOk(i) == mIgnored[i].patternName = mFinding.patternName

PathOk(i) ==
  \/ mIgnored[i].filePath = mFinding.filePath
  \/ SameTrailingSegment(mIgnored[i].filePath, mFinding.filePath)

LineDistance(i) == Abs(mIgnored[i].lineNumber - mFinding.lineNumber)

\* edit distance of the two texts, times 10, against 3 times the longer
\* length: similarity > 0.7 <=> 10 * distance < 3 * maxLength
TenTimesDistance(i) ==
  10 * LevenshteinDistance(mIgnored[i].matchedContent, mFinding.matchedContent)

ThreeTimesLength(i) ==
  3 * Max(Len(mIgnored[i].matchedContent), Len(mFinding.matchedContent))

SimilarityAbove(i) == TenTimesDistance(i) < ThreeTimesLength(i)

SimilarityAtLeast(i) == TenTimesDistance(i) <= ThreeTimesLength(i)

\* the records that pass the four tests of the fuzzy tier
FuzzyIdx ==
  {i \in 1..Len(mIgnored) :
     RuleOk(i) /\ PathOk(i) /\ LineDistance(i) <= LineRange /\ SimilarityAbove(i)}

\* C5: Exact tier.  If some record has the fingerprint of the finding, the
\* call returns a match (the first such record), whatever the rule, path,
\* line and text of that record, and whatever fuzzy candidates come before
\* it in the list.
C5_ExactTierFirst ==
  (Returned /\ ExactIdx # {}) => mResult = mIgnored[FirstOf(ExactIdx)].id

\* the match is a record that fails every fuzzy test and comes after a
\* record that passes them
C5_Witness ==
  /\ Returned
  /\ ExactIdx = {2}
  /\ FuzzyIdx = {1}
  /\ ~ RuleOk(2) /\ ~ PathOk(2) /\ LineDistance(2) > LineRange
  /\ mIgnored[2].matchedContent # mFinding.matchedContent
  /\ mResult = 2

\* C6: Fuzzy similarity threshold.  When no fingerprint matches, a record
\* that passes the rule, path and line tests is a match if and only if the
\* similarity of the texts is >= 0.70; exactly 0.70 is a match.
C6_ThresholdInclusive ==
  (Returned /\ ExactIdx = {}) =>
    (mResult # UndefinedId <=>
       \E i \in 1..Len(mIgnored) :
         RuleOk(i) /\ PathOk(i) /\ LineDistance(i) <= LineRange /\ SimilarityAtLeast(i))

\* C7: Fuzzy line distance.  When no fingerprint matches, a record more than
\* 15 lines away is never returned, and a record at most 15 lines away
\* (15 included) that passes the rule, path and similarity tests makes the
\* call return a match; a finding moved by 5 lines stays suppressed.
C7_LineDistance ==
  (Returned /\ ExactIdx = {}) =>
    /\ \A i \in 1..Len(mIgnored) :
         mResult = mIgnored[i].id => LineDistance(i) <= 15
    /\ (\E i \in 1..Len(mIgnored) :
          RuleOk(i) /\ PathOk(i) /\ SimilarityAbove(i) /\ LineDistance(i) <= 15)
         => mResult # UndefinedId

\* a record exactly 15 lines away is returned, next to one 16 lines away
C7_Witness ==
  /\ Returned
  /\ ExactIdx = {}
  /\ Len(mIgnored) = 2
  /\ LineDistance(1) = 16 /\ RuleOk(1) /\ PathOk(1) /\ SimilarityAbove(1)
  /\ LineDistance(2) = 15
  /\ mResult = 2

C10_MoveTolerance ==
  /\ \A i \in 1..Len(mIgnored) : SamePathOrMoved(mIgnored[i], mFinding) <=> PathOk(i)
  /\ (Returned /\ ExactIdx = {}) =>
       /\ \A i \in 1..Len(mIgnored) :
            mResult = mIgnored[i].id =>
              SameTrailingSegment(mIgnored[i].filePath, mFinding.filePath)
       /\ (\E i \in 1..Len(mIgnored) :
             /\ RuleOk(i) /\ LineDistance(i) <= LineRange /\ SimilarityAbove(i)
             /\ SameTrailingSegment(mIgnored[i].filePath, mFinding.filePath))
            => mResult # UndefinedId

\* the match is a record of a file with the same name in another directory,
\* next to a record of a file with another name
C10_Witness ==
  /\ Returned
  /\ ExactIdx = {}
  /\ Len(mIgnored) = 2
  /\ RuleOk(1) /\ LineDistance(1) <= LineRange /\ SimilarityAbove(1) /\ ~ PathOk(1)
  /\ mIgnored[2].filePath # mFinding.filePath
  /\ mResult = 2

(***************************************************************************)
(* Claims about calculateStringSimilarity (SpecSim)                        *)
(***************************************************************************)
\* a record with the text sStr1 and a finding with the text sStr2 that pass
\* the rule, path and line tests and do not share a persistent id
SimRecord ==
  [id |-> 1, persistentId |-> Sha256Hex24(<<"o">>), patternName |-> RuleP,
   filePath |-> FileWA, lineNumber |-> 1, matchedContent |-> sStr1]

SimFinding == EnhanceFinding(RawFinding(100, RuleP, FileWA, 1, sStr2))

\* C11: If the matched text of the finding or of the record is empty, the
\* similarity is 0 and the fuzzy tier does not match the pair, also when
\* both texts are empty.
C11_EmptyTextSimilarityZero ==
  (Computed /\ (sStr1 = <<>> \/ sStr2 = <<>>)) =>
    /\ sResult = <<0, 1>>
    /\ ~ IsSimilarFinding(SimRecord, SimFinding)
    /\ FindMatchingIgnoredFinding(SimFinding, <<SimRecord>>) = UndefinedId

\* both texts are empty and the similarity computed is 0
C11_Witness ==
  /\ Computed
  /\ sStr1 = <<>> /\ sStr2 = <<>>
  /\ sResult[1] = 0
  /\ SimRecord.persistentId # SimFinding.persistentId

\* the edit distance by its recurrence on the first characters
RECURSIVE ReferenceDistance(_, _)
ReferenceDistance(a, b) ==
  IF a = <<>> THEN Len(b)
  ELSE IF b = <<>> THEN Len(a)
  ELSE IF Head(a) = Head(b) THEN ReferenceDistance(Tail(a), Tail(b))
  ELSE 1 + Min3(ReferenceDistance(Tail(a), b),
                ReferenceDistance(a, Tail(b)),
                ReferenceDistance(Tail(a), Tail(b)))

\* C12: For non-empty strings the similarity equals
\* 1 - referenceDistance / max(len, len); it is the same with the arguments
\* swapped, lies in [0, 1], and is 1 exactly when the strings are equal.
C12_SimilarityIsNormalisedDistance ==
  (Computed /\ sStr1 # <<>> /\ sStr2 # <<>>) =>
    LET maxLength == Max(Len(sStr1), Len(sStr2))
        swapped   == CalculateStringSimilarity(sStr2, sStr1)
    IN /\ sResult[2] > 0
       /\ sResult[1] * maxLength
            = (maxLength - ReferenceDistance(sStr1, sStr2)) * sResult[2]
       /\ sResult[1] * swapped[2] = swapped[1] * sResult[2]
       /\ 0 <= sResult[1] /\ sResult[1] <= sResult[2]
       /\ (sResult[1] = sResult[2]) <=> (sStr1 = sStr2)

\* strings of different lengths with a similarity strictly between 0 and 1
C12_Witness ==
  /\ Computed
  /\ sStr1 # <<>> /\ sStr2 # <<>>
  /\ Len(sStr1) < Len(sStr2)
  /\ 0 < sResult[1] /\ sResult[1] < sResult[2]

(***************************************************************************)
(* Claims about fingerprints (Spec)                                        *)
(***************************************************************************)
\* everything that carries a persistent id: scan results, decorated
\* findings and records
Fingerprinted == SeqElems(results) \cup EditorFindings \cup Records

\* C13: Fingerprint determinism.  Two findings (or records) that agree on
\* rule name, workspace-relative path and matched text have the same
\* persistent id, whatever their session ids and line numbers; every
\* persistent id is the 24-character prefix of the hex digest.
C13_FingerprintDeterminism ==
  /\ \A a, b \in Fingerprinted :
       (/\ a.patternName = b.patternName
        /\ GetRelativeFilePath(a.filePath) = GetRelativeFilePath(b.filePath)
        /\ a.matchedContent = b.matchedContent)
         => a.persistentId = b.persistentId
  /\ \A a \in Fingerprinted :
       Len(a.persistentId) = 2 /\ a.persistentId[1] = "sha256/24"

\* one scan found the same text of the same rule and file on two lines,
\* under two session ids, with one persistent id
C13_Witness ==
  \E a, b \in SeqElems(results) :
    /\ a.id # b.id
    /\ a.lineNumber # b.lineNumber
    /\ a.filePath = b.filePath
    /\ a.matchedContent = b.matchedContent
    /\ a.persistentId = b.persistentId

\* the hashed string for the path taken relative to the folder w
HashedWithRelativePath(f, w) ==
  f.patternName \o <<":">> \o Substring(f.filePath, Len(w)) \o <<":">>
    \o f.matchedContent

\* C14: The path hashed into a persistent id is the path relative to the
\* workspace folder of the file, never the absolute path; the same rule,
\* relative path and text under two workspace folders give one
\* persistent id.
C14_RelativePathHashed ==
  /\ \A f \in Fingerprinted :
       \E w \in WorkspaceFolders :
         /\ StartsWith(f.filePath, w \o <<"/">>)
         /\ f.persistentId = <<"sha256/24", HashedWithRelativePath(f, w)>>
         /\ Substring(f.filePath, Len(w)) # f.filePath
  /\ \A a, b \in Fingerprinted :
       \A wa, wb \in WorkspaceFolders :
         (/\ StartsWith(a.filePath, wa \o <<"/">>)
          /\ StartsWith(b.filePath, wb \o <<"/">>)
          /\ a.patternName = b.patternName
          /\ Substring(a.filePath, Len(wa)) = Substring(b.filePath, Len(wb))
          /\ a.matchedContent = b.matchedContent)
           => a.persistentId = b.persistentId

\* a record of one workspace folder and a finding of the other one have
\* the same persistent id
C14_Witness ==
  \E r \in Records : \E f \in SeqElems(results) :
    /\ StartsWith(r.filePath, WsW \o <<"/">>)
    /\ StartsWith(f.filePath, WsV \o <<"/">>)
    /\ r.persistentId = f.persistentId

(***************************************************************************)
(* Claims about the result of a run and the store (Spec)                   *)
(***************************************************************************)
\* C15: Suppress stage.  The list a run leaves as its result (whose length
\* is the reported count) holds no finding for which the matcher finds a
\* record.
C15_ResultHasNoSuppressed ==
  JustScanned =>
    \A f \in SeqElems(results) :
      FindMatchingIgnoredFinding(f, ignoredFindingObjects) = UndefinedId

\* the list of a workspace folder, empty when the map has no entry
WorkspaceRecords(byWorkspace, w) ==
  IF w \in DOMAIN byWorkspace THEN byWorkspace[w] ELSE <<>>

\* the folder of the last ignore: that of the record made for the finding
LastIgnoredFolder ==
  LET r == CHOOSE x \in Records : x.id = lastOp[2]
  IN GetWorkspaceFolder(r.filePath)

OneAppended(old, new) ==
  Len(new) = Len(old) + 1 /\ SubSeq(new, 1, Len(old)) = old

\* the list is the old one with some records left out, the others in order
RECURSIVE SomeRemoved(_, _)
SomeRemoved(old, new) ==
  IF new = <<>> THEN TRUE
  ELSE IF old = <<>> THEN FALSE
  ELSE IF Head(old) = Head(new) THEN SomeRemoved(Tail(old), Tail(new))
  ELSE SomeRemoved(Tail(old), new)

\* C17: Frame.  A scan (with updateFindings, getFilteredFindings and the
\* tree refresh it runs) leaves every workspace's list, the global record
\* list and the store files unchanged; an ignore appends one record to one
\* list and changes no other record; an un-ignore only removes records.
C17_RecordsFrame ==
  [][/\ lastOp'[1] = "runAnalysis" =>
          /\ \A w \in WorkspaceFolders :
               WorkspaceRecords(ignoredFindingsByWorkspace', w)
                 = WorkspaceRecords(ignoredFindingsByWorkspace, w)
          /\ ignoredFindingObjects' = ignoredFindingObjects
          /\ storeFile' = storeFile
     /\ lastOp'[1] = "ignoreFinding" =>
          /\ OneAppended(ignoredFindingObjects, ignoredFindingObjects')
          /\ \E w \in WorkspaceFolders :
               /\ OneAppended(WorkspaceRecords(ignoredFindingsByWorkspace, w),
                              WorkspaceRecords(ignoredFindingsByWorkspace', w))
               /\ \A x \in WorkspaceFolders \ {w} :
                    WorkspaceRecords(ignoredFindingsByWorkspace', x)
                      = WorkspaceRecords(ignoredFindingsByWorkspace, x)
     /\ lastOp'[1] = "unignore" =>
          /\ SomeRemoved(ignoredFindingObjects, ignoredFindingObjects')
          /\ \A w \in WorkspaceFolders :
               SomeRemoved(WorkspaceRecords(ignoredFindingsByWorkspace, w),
                           WorkspaceRecords(ignoredFindingsByWorkspace', w))
    ]_vars

\* a scan has just suppressed a finding through a record, and the record
\* lists and the store file still hold that record
C17_Witness ==
  /\ JustScanned
  /\ \E r \in SessionRecords : \E f \in SeqElems(results) :
       /\ f.persistentId = r.persistentId
       /\ f \notin VisibleFindings
       /\ \E w \in WorkspaceFolders :
            /\ r \in SeqElems(WorkspaceRecords(ignoredFindingsByWorkspace, w))
            /\ r \in SeqElems(storeFile[w].records)

RunSettled == Settled /\ rResult.fn = "runAnalysis"

\* the pattern at position i passes the filter on missing tools
ToolAvailable(i) ==
  IF rPatterns[i].tool = "ripgrep" THEN rToolCheck.ripgrepAvailable
  ELSE rToolCheck.weggliAvailable

\* the number of matches the scanner of the pattern at position i reports
Reported(i) ==
  IF rPatterns[i].outcome # "matches" THEN 0
  ELSE IF rPatterns[i].tool = "ripgrep" THEN 1
  ELSE Cardinality({k \in 1..Len(rPatterns[i].files) :
                      rPatterns[i].files[k] = "matches"})

\* the positions whose scanner is invoked and reports a match
Reporting ==
  {i \in 1..Len(rPatterns) : ToolAvailable(i) /\ Reported(i) > 0}

\* the rule names of the matches reported by the positions from i on
RECURSIVE ReportedNames(_)
ReportedNames(i) ==
  IF i > Len(rPatterns) THEN <<>>
  ELSE [n \in 1..(IF ToolAvailable(i) THEN Reported(i) ELSE 0) |-> PatternName(i)]
         \o ReportedNames(i + 1)

\* the positions whose scanner fails with a non-empty error stream
Failing ==
  {i \in 1..Len(rPatterns) : ToolAvailable(i) /\ rPatterns[i].outcome = "failure"}

\* C19: Failure isolation.  Whatever patterns fail with an ordinary error,
\* the call returns a list, executePattern has been called for every
\* pattern whose tool is available, in order, and the list holds exactly
\* the findings of the patterns that reported a match, in pattern order.
C19_FailureIsolation ==
  RunSettled =>
    /\ ~ rResult.threw
    /\ rResult.executed = Ascending({i \in 1..Len(rPatterns) : ToolAvailable(i)})
    /\ [n \in 1..Len(rResult.allResults) |-> rResult.allResults[n].patternName]
         = ReportedNames(1)

\* the first pattern failed and a later one has its finding in the result
C19_Witness ==
  /\ RunSettled
  /\ 1 \in Failing
  /\ rPatterns[1].tool = "ripgrep"
  /\ rResult.failed = <<1>>
  /\ Len(rResult.allResults) = 1
  /\ rResult.allResults[1].patternName = PatternName(2)

\* the positions for which an invoked scanner is not found
NotFound ==
  {i \in 1..Len(rPatterns) :
     /\ ToolAvailable(i)
     /\ rPatterns[i].outcome = "notFound"}

\* C20: ToolNotFound.  When invoking the scanner of a pattern fails because
\* the executable is not found, the call ends with an error instead of a
\* list, and no pattern after that one is executed.
C20_ToolNotFoundAborts ==
  (RunSettled /\ NotFound # {}) =>
    /\ rResult.threw
    /\ rResult.executed
         = Ascending({i \in 1..Len(rPatterns) :
                        ToolAvailable(i) /\ \A j \in NotFound : i <= j})

\* the execa calls made for the pattern at position i
InvocationsFor(i) ==
  LET at == {k \in 1..Len(rResult.executed) : rResult.executed[k] = i}
  IN IF at = {} THEN <<>> ELSE rResult.invocations[CHOOSE k \in at : TRUE]

\* the findings of the result that the pattern at position i produced
FindingsFor(i) ==
  {n \in 1..Len(rResult.allResults) :
     rResult.allResults[n].patternName = PatternName(i)}

\* the patterns after position i that the call is to execute
Remaining(i) ==
  {j \in (i + 1)..Len(rPatterns) :
     rResult.fn = "directFileScan" \/ ToolAvailable(j)}

\* the scanner of the pattern at position i was invoked on the workspace or
\* on the file and ended with the no-match condition
NoMatchAt(i) ==
  /\ InvocationsFor(i) # <<>>
  /\ rPatterns[i].outcome = "noMatch"
  /\ rPatterns[i].tool = "ripgrep" \/ rResult.fn = "directFileScan"

\* weggli was invoked on the k-th listed file for the pattern at position i
\* and ended with the no-match condition
NoMatchOnFile(i, k) ==
  /\ rResult.fn = "runAnalysis"
  /\ InvocationsFor(i) # <<>>
  /\ rPatterns[i].tool = "weggli"
  /\ rPatterns[i].outcome = "matches"
  /\ k \in 1..Len(rPatterns[i].files)
  /\ rPatterns[i].files[k] = "noMatch"

\* C21: No-match is not an error.  In a workspace run and in a direct file
\* scan, a scanner invocation that ends with exit code 1 and an empty error
\* stream yields no finding for that rule (or file), no error is shown to
\* the user for the rule, and the rules (or files) after it are still
\* executed.
C21_NoMatchIsNoError ==
  (Settled /\ rResult.fn \in {"runAnalysis", "directFileScan"}) =>
    /\ ~ rResult.threw
    /\ \A i \in 1..Len(rPatterns) :
         /\ NoMatchAt(i) =>
              /\ FindingsFor(i) = {}
              /\ \A k \in 1..Len(rResult.failed) : rResult.failed[k] # i
              /\ \A j \in Remaining(i) :
                   \E k \in 1..Len(rResult.executed) : rResult.executed[k] = j
         /\ \A f \in 1..Len(rPatterns[i].files) :
              NoMatchOnFile(i, f) =>
                /\ \A n \in FindingsFor(i) :
                     rResult.allResults[n].filePath # CppFile(f)
                /\ \A k \in 1..Len(rResult.failed) : rResult.failed[k] # i
                /\ \A g \in (f + 1)..Len(rPatterns[i].files) :
                     \E k \in 1..Len(InvocationsFor(i)) :
                       InvocationsFor(i)[k] = Invocation("weggli", "query", CppFile(g))
                /\ \A j \in Remaining(i) :
                     \E k \in 1..Len(rResult.executed) : rResult.executed[k] = j

\* a workspace run whose first rule ended with the no-match condition and
\* whose second rule found nothing in its first file and a match in its
\* second
C21_Witness ==
  /\ RunSettled
  /\ Len(rPatterns) = 2
  /\ NoMatchAt(1)
  /\ NoMatchOnFile(2, 1)
  /\ rResult.failed = <<>>
  /\ Len(rResult.allResults) = 1
  /\ rResult.allResults[1].filePath = CppFile(2)

\* a direct file scan whose first rule ended with the no-match condition
\* and whose second rule found a match
C21_WitnessFile ==
  /\ Settled
  /\ rResult.fn = "directFileScan"
  /\ Len(rPatterns) = 2
  /\ NoMatchAt(1)
  /\ Len(rResult.allResults) = 1
  /\ rResult.allResults[1].patternName = PatternName(2)

\* the health probe of the scanner of some pattern failed
ProbeFailed == \E i \in 1..Len(rPatterns) : ~ ToolAvailable(i)

\* C22: Tool availability.  When the health probe of a scanner kind fails,
\* the rules of that kind are dropped and the run goes on: whether started
\* through GrepService.runAnalysis or through the greppy.runAnalysis
\* command, it executes every rule whose scanner is available, in order,
\* and returns their findings.
C22_MissingToolNotFatal ==
  (Settled /\ rResult.fn \in {"runAnalysis", "command"} /\ ProbeFailed) =>
    /\ ~ rResult.threw
    /\ rResult.executed = Ascending({i \in 1..Len(rPatterns) : ToolAvailable(i)})
    /\ [n \in 1..Len(rResult.allResults) |-> rResult.allResults[n].patternName]
         = ReportedNames(1)

\* the file types the rule at position i lists
SupportedFileTypes(i) ==
  {rPatterns[i].supportedFileTypes[k] : k \in 1..Len(rPatterns[i].supportedFileTypes)}

\* the rule at position i applies to the scanned file: its list has the
\* wildcard or the extension of the file, and for weggli the extension is
\* one of the C/C++ extensions
Applies(i) ==
  /\ \/ Wildcard \in SupportedFileTypes(i)
     \/ FileExtension(call.filePath) \in SupportedFileTypes(i)
  /\ rPatterns[i].tool = "weggli" => FileExtension(call.filePath) \in CppFileTypes

\* C23: File-type applicability.  In a direct file scan the scanner of an
\* enabled rule that lists supportedFileTypes is invoked on the file if and
\* only if the list has the wildcard or the file's extension and, for a
\* weggli rule, the extension is in the C/C++ extension set whatever the
\* list says.
C23_FileTypeApplicability ==
  (Settled /\ rResult.fn = "directFileScan") =>
    \A i \in 1..Len(rPatterns) :
      (PatternName(i) \notin call.disabledPatterns /\ SupportedFileTypes(i) # {}) =>
        (InvocationsFor(i) # <<>> <=> Applies(i))

\* the files the listing printed for the pattern at position i
ListedFiles(i) ==
  IF rPatterns[i].outcome = "matches" THEN Len(rPatterns[i].files) ELSE 0

\* C24: Execute stage in workspace mode.  For every executed rule of a
\* workspace run: a ripgrep rule makes exactly one invocation, of ripgrep
\* on the workspace folder; a weggli rule makes one invocation of ripgrep
\* that lists the files and then exactly one invocation of weggli per
\* listed file, in order, each on that file and none on a folder, whatever
\* the invocations on earlier files did; with no file listed weggli is not
\* invoked and the rule contributes no finding.
C24_ExecuteStage ==
  RunSettled =>
    \A i \in 1..Len(rPatterns) :
      ToolAvailable(i) =>
        IF rPatterns[i].tool = "ripgrep"
        THEN InvocationsFor(i) = <<Invocation("ripgrep", "search", WsW)>>
        ELSE /\ Len(InvocationsFor(i)) = 1 + ListedFiles(i)
             /\ InvocationsFor(i)[1] = Invocation("ripgrep", "files", WsW)
             /\ \A k \in 1..ListedFiles(i) :
                  InvocationsFor(i)[k + 1] = Invocation("weggli", "query", CppFile(k))
             /\ ListedFiles(i) = 0 => FindingsFor(i) = {}

\* a weggli rule whose first listed file made weggli fail and whose second
\* file has a match: weggli ran on both and the match is in the result
C24_Witness ==
  /\ RunSettled
  /\ Len(rPatterns) = 1
  /\ rPatterns[1].tool = "weggli"
  /\ rPatterns[1].outcome = "matches"
  /\ rPatterns[1].files = <<"failure", "matches">>
  /\ Len(InvocationsFor(1)) = 3
  /\ Len(rResult.allResults) = 1
  /\ rResult.allResults[1].filePath = CppFile(2)

(***************************************************************************)
(* Claims about the output parsers (SpecParse)                             *)
(***************************************************************************)
\* path, line number and content of the matches the parser returned
ParsedMatches ==
  [k \in 1..Len(returned.results) |->
     [path |-> returned.results[k].filePath,
      lineNumber |-> returned.results[k].lineNumber,
      content |-> returned.results[k].matchedContent]]

\* the positions of the colons of a line, and its first and second colon
Colons(line) == {p \in 1..Len(line) : line[p] = ":"}

FirstColon(line) == CHOOSE p \in Colons(line) : \A q \in Colons(line) : p <= q

SecondColon(line) ==
  CHOOSE p \in Colons(line) \ {FirstColon(line)} :
    \A q \in Colons(line) \ {FirstColon(line)} : p <= q

\* a line `path:lineNumber:content` whose line number is a number
WellFormed(line) ==
  /\ Cardinality(Colons(line)) >= 2
  /\ SecondColon(line) > FirstColon(line) + 1
  /\ \A p \in (FirstColon(line) + 1)..(SecondColon(line) - 1) : line[p] \in Digits

\* the match a well-formed line stands for
MatchOfLine(line) ==
  [path |-> SubSeq(line, 1, FirstColon(line) - 1),
   lineNumber |-> DecimalValue(SubSeq(line, FirstColon(line) + 1,
                                      SecondColon(line) - 1)),
   content |-> SubSeq(line, SecondColon(line) + 1, Len(line))]

\* the matches of the well-formed lines among lines[i..], in order
RECURSIVE MatchesOfLines(_, _)
MatchesOfLines(lines, i) ==
  IF i > Len(lines) THEN <<>>
  ELSE (IF WellFormed(lines[i]) THEN <<MatchOfLine(lines[i])>> ELSE <<>>)
         \o MatchesOfLines(lines, i + 1)

\* C25: Line-search parsing.  For an output of lines without blanks, the
\* parser returns one match per well-formed line `path:lineNumber:content`,
\* in output order, with the path before the first colon, the number
\* between the first and the second colon and the rest of the line as
\* content; a line without two colons or whose line number is not a number
\* yields no match.
C25_RipgrepParsing ==
  (Parsed /\ call.fn = "parseRipgrepOutput"
          /\ \A p \in 1..Len(call.output) : call.output[p] # " ") =>
    ParsedMatches = MatchesOfLines(Split(call.output, NewLine), 1)

\* a block with a File line and a Line line
Complete(block) == block.file # <<>> /\ block.line # <<>>

\* the first line of the content of a block that is not blank, without its
\* surrounding blanks; empty when there is none
ContentOf(block) ==
  LET filled == {k \in 1..Len(block.content) :
                   \E p \in 1..Len(block.content[k]) : block.content[k][p] # " "}
      first == CHOOSE k \in filled : \A j \in filled : k <= j
      text == block.content[first]
      inked == {p \in 1..Len(text) : text[p] # " "}
  IN IF filled = {} THEN <<>>
     ELSE SubSeq(text, CHOOSE p \in inked : \A q \in inked : p <= q,
                       CHOOSE p \in inked : \A q \in inked : q <= p)

\* the start line of a block: the number before the dash, if any
StartLineOf(block) ==
  DecimalValue(SubSeq(block.line, 1,
    IF \E p \in 1..Len(block.line) : block.line[p] = "-"
    THEN (CHOOSE p \in 1..Len(block.line) : block.line[p] = "-") - 1
    ELSE Len(block.line)))

\* the matches of the complete blocks among blocks[i..], in order
RECURSIVE MatchesOfBlocks(_, _)
MatchesOfBlocks(blocks, i) ==
  IF i > Len(blocks) THEN <<>>
  ELSE (IF Complete(blocks[i])
        THEN <<[path |-> blocks[i].file, lineNumber |-> StartLineOf(blocks[i]),
                content |-> ContentOf(blocks[i])]>>
        ELSE <<>>)
         \o MatchesOfBlocks(blocks, i + 1)

\* C26: Structural-query parsing.  For an output of blocks separated by a
\* delimiter line, with or without a delimiter line before the first
\* block, the parser returns one match per block that has a File line and
\* a Line line, the first block included, in output order, with the path,
\* the start line and the first non-blank content line of the block; a
\* block lacking File or Line yields no match.
C26_WeggliParsing ==
  (Parsed /\ call.fn = "parseWeggliOutput") =>
    ParsedMatches = MatchesOfBlocks(call.blocks, 1)

\* the same for the outputs that begin with a delimiter line
C26_WeggliParsingAfterDelimiter ==
  (Parsed /\ call.fn = "parseWeggliOutput" /\ call.leading) =>
    ParsedMatches = MatchesOfBlocks(call.blocks, 1)

(***************************************************************************)
(* Claims about the context window (SpecContext)                           *)
(***************************************************************************)
\* the match of FileWA handed to the loop, its file and its line
ScannedMatch == call.found[1]

ScannedFile == call.files[ScannedMatch.filePath]

MatchLineNumber == ScannedMatch.lineNumber

\* the positions of the newlines of the scanned file, and the position of
\* the k-th of them
NewLines == {p \in 1..Len(ScannedFile.content) : ScannedFile.content[p] = "\n"}

NewLineAt(k) ==
  CHOOSE p \in NewLines : Cardinality({q \in NewLines : q <= p}) = k

\* the number of the last line of the scanned file (the text after the last
\* newline is a line, also when it is empty)
LastLine == Cardinality(NewLines) + 1

\* the text of the lines first..last of the scanned file, cut out of it
TextOfLines(first, last) ==
  SubSeq(ScannedFile.content,
         IF first = 1 THEN 1 ELSE NewLineAt(first - 1) + 1,
         IF last = LastLine THEN Len(ScannedFile.content) ELSE NewLineAt(last) - 1)

\* the finding the loop made of the match of FileWA
EnhancedMatch == returned.results[1]

\* the finding carries no context
ContextAbsent(finding) ==
  /\ "contextContent" \notin DOMAIN finding
  /\ "contextStart" \notin DOMAIN finding
  /\ "contextEnd" \notin DOMAIN finding

\* C27: Context window.  For a readable file whose last line is N and a
\* match at line L with 1 <= L <= N, the finding carries the window
\* start = max(1, L - 3), end = min(N, L + 3), with 1 <= start <= L <= end
\* <= N, and as context the text of the lines start..end of the file.
C27_ContextWindow ==
  (Enhanced /\ ScannedFile.readable /\ MatchLineNumber <= LastLine) =>
    /\ ~ ContextAbsent(EnhancedMatch)
    /\ EnhancedMatch.contextStart = Max(1, MatchLineNumber - 3)
    /\ EnhancedMatch.contextEnd = Min(LastLine, MatchLineNumber + 3)
    /\ 1 <= EnhancedMatch.contextStart
    /\ EnhancedMatch.contextStart <= MatchLineNumber
    /\ MatchLineNumber <= EnhancedMatch.contextEnd
    /\ EnhancedMatch.contextEnd <= LastLine
    /\ EnhancedMatch.contextContent
         = TextOfLines(EnhancedMatch.contextStart, EnhancedMatch.contextEnd)

\* a match in the middle of a file: the window is cut at neither end
C27_Witness ==
  /\ Enhanced
  /\ ScannedFile.readable
  /\ MatchLineNumber = 5
  /\ LastLine = 9
  /\ EnhancedMatch.contextStart = 2
  /\ EnhancedMatch.contextEnd = 8
  /\ Len(EnhancedMatch.contextContent) = 6

\* a match at the first line of a short file: the window is cut at both ends
C27_WitnessCut ==
  /\ Enhanced
  /\ ScannedFile.readable
  /\ MatchLineNumber = 1
  /\ LastLine = 2
  /\ EnhancedMatch.contextStart = 1
  /\ EnhancedMatch.contextEnd = 2

\* C28: Context read error.  When the file of a match cannot be read, the
\* loop still returns one finding per match, in order; the finding of that
\* match has a fingerprint and no context text, start or end, and the
\* matches after it are enhanced as well, with their context when their
\* file can be read.
C28_ContextReadError ==
  Enhanced =>
    /\ Len(returned.results) = Len(call.found)
    /\ \A k \in 1..Len(call.found) :
         /\ returned.results[k].id = call.found[k].id
         /\ returned.results[k].persistentId
              = GeneratePersistentId(call.found[k])
         /\ returned.results[k].persistentId # Undefined
         /\ ContextAbsent(returned.results[k])
              <=> ~ call.files[call.found[k].filePath].readable

\* the file of the first match cannot be read, the one of the second can
C28_Witness ==
  /\ Enhanced
  /\ Len(call.found) = 2
  /\ ~ ScannedFile.readable
  /\ ContextAbsent(returned.results[1])
  /\ returned.results[1].persistentId # Undefined
  /\ ~ ContextAbsent(returned.results[2])

\* C29: Out-of-range line.  When the line of a match lies beyond the last
\* line of a readable file, the finding carries no context text, start or
\* end; in particular its start is never greater than its end.
C29_OutOfRangeAbsent ==
  (Enhanced /\ ScannedFile.readable /\ MatchLineNumber > LastLine) =>
    ContextAbsent(EnhancedMatch)

(***************************************************************************)
(* Claims about the filter of ignored findings (Spec)                      *)
(***************************************************************************)
\* what getFilteredFindings returns for the stored results, and the id set
\* it leaves
Filtered == GetFilteredFindings(decorator, results)

\* the positions of the stored results whose id is not ignored once the
\* filter has run
NotIgnoredAfter ==
  {i \in 1..Len(results) : results[i].id \notin Filtered.ignoredFindings}

\* C30: Filter of ignored findings.  getFilteredFindings returns exactly
\* the stored results that are not ignored, in their order, and none whose
\* id isIgnored; it returns them all when nothing is ignored; after
\* updateFindings (at the end of a run) no finding with an ignored id is
\* stored in findingsByFilePath, and after a refresh no finding the tree
\* shows has an ignored id.
C30_FilterIgnored ==
  /\ Filtered.kept = KeepIndices(results, NotIgnoredAfter, 1)
  /\ \A k \in 1..Len(Filtered.kept) :
       ~ IsIgnored([decorator EXCEPT !.ignoredFindings = Filtered.ignoredFindings],
                   Filtered.kept[k].id)
  /\ (ignoredFindings = {} /\ ignoredFindingObjects = <<>>) =>
       Filtered.kept = results
  /\ JustScanned => \A f \in EditorFindings : ~ IsIgnored(decorator, f.id)
  /\ \A f \in TreeFindings : ~ IsIgnored(decorator, f.id)

\* one of two findings of a scan has been ignored: the filter returns the
\* other one and the editors show the other one
C30_Witness ==
  /\ lastOp[1] = "ignoreFinding"
  /\ Len(results) = 2
  /\ Len(Filtered.kept) = 1
  /\ Cardinality(EditorFindings) = 1
  /\ \E i \in 1..2 : IsIgnored(decorator, results[i].id)

(***************************************************************************)
(* Claims about a cancellable progress (SpecCancel)                        *)
(***************************************************************************)
\* C31: Cooperative cancellation.  Once the cancellation of a progress has
\* been requested, no further pattern or file iteration is started and the
\* findings gathered so far stay as they are.
C31_CooperativeCancellation ==
  [][call.isCancellationRequested =>
       /\ call'.i = call.i
       /\ rResult'.allResults = rResult.allResults]_vars

\* the part the code has: between the files of scanAllOpenFiles
C31_CancellationBetweenFiles ==
  [][(call.fn = "scanAllOpenFiles" /\ call.isCancellationRequested) =>
       /\ call'.i = call.i
       /\ rResult'.allResults = rResult.allResults]_vars

(***************************************************************************)
(* Claims about findings on several lines (Spec)                           *)
(***************************************************************************)
\* the same rule and text in the same file, whatever the lines
SameText(a, b) ==
  /\ a.patternName = b.patternName
  /\ a.filePath = b.filePath
  /\ a.matchedContent = b.matchedContent

\* C32: Findings with the same rule, file and text on different lines.
\* After a re-scan, every finding that shares rule, file and matched text
\* with a record has the fingerprint of that record (the exact tier applies,
\* at every line distance), is marked ignored and is shown neither by the
\* tree nor by the editors: ignoring one of several such findings suppresses
\* them all.
C32_SameTextEveryLine ==
  JustScanned =>
    \A r \in Records : \A f \in SeqElems(results) :
      SameText(r, f) =>
        /\ f.persistentId = r.persistentId
        /\ ExactMatches(f, ignoredFindingObjects) # <<>>
        /\ IsIgnored(decorator, f.id)
        /\ f \notin VisibleFindings

\* one finding was ignored in this session and the re-scan reports the same
\* rule and text on two lines of the file, more than LineRange apart: both
\* are hidden
C32_Witness ==
  /\ JustScanned
  /\ Len(results) = 2
  /\ SameText(results[1], results[2])
  /\ Abs(results[1].lineNumber - results[2].lineNumber) > LineRange
  /\ \E r \in SessionRecords : SameText(r, results[1]) /\ r.id < results[1].id
  /\ VisibleFindings = {}

(***************************************************************************)
(* Claims about overlapping calls (SpecOverlap)                            *)
(***************************************************************************)
\* the positions of the updateFindings calls started so far
UpdateCalls == {c \in 1..Len(asyncCalls) : asyncCalls[c].fn = "updateFindings"}

\* every updateFindings call has completed, and the last step completed one
AllUpdatesCompleted ==
  /\ UpdateCalls # {}
  /\ \A c \in UpdateCalls : asyncCalls[c].done
  /\ lastOp[1] \in {"updateFindings", "resume"}

\* the updateFindings call that was started last
LastUpdate == asyncCalls[CHOOSE c \in UpdateCalls : \A x \in UpdateCalls : x <= c]

\* the findings of a list whose id is not ignored
Unsuppressed(findings) ==
  KeepIndices(findings,
              {i \in 1..Len(findings) : findings[i].id \notin ignoredFindings}, 1)

\* C33: Overlapping updateFindings calls.  Once every updateFindings call
\* has completed, findingsByFilePath holds exactly the unsuppressed findings
\* of the call started last, each of them once.
C33_LastUpdateWins ==
  AllUpdatesCompleted =>
    findingsByFilePath = GroupByFilePath(Unsuppressed(LastUpdate.findings))

\* the same with one call at a time: the property of a call that ran alone
C33_SingleUpdate ==
  (AllUpdatesCompleted /\ Cardinality(UpdateCalls) = 1) =>
    findingsByFilePath = GroupByFilePath(Unsuppressed(LastUpdate.findings))

\* C34: Ignore during an update.  When the command of a click on the ignore
\* link of a displayed finding is handled, a record with the id of the
\* finding is in the record list and in a store file afterwards.
C34_IgnoreTakesEffect ==
  [][\A c \in 1..Len(asyncCalls) :
       (asyncCalls[c].fn = "ignoreFinding" /\ ~ asyncCalls[c].done
          /\ asyncCalls'[c].done) =>
         /\ \E k \in 1..Len(ignoredFindingObjects') :
              ignoredFindingObjects'[k].id = asyncCalls[c].findingId
         /\ \E w \in DOMAIN storeFile' :
              \E k \in 1..Len(storeFile'[w].records) :
                storeFile'[w].records[k].id = asyncCalls[c].findingId]_vars

\* the same for a command handled while no updateFindings call has started
\* since the click
C34_IgnoreWithoutUpdate ==
  [][\A c \in 1..Len(asyncCalls) :
       (/\ asyncCalls[c].fn = "ignoreFinding" /\ ~ asyncCalls[c].done
        /\ asyncCalls'[c].done
        /\ \A x \in UpdateCalls : x < c) =>
         /\ \E k \in 1..Len(ignoredFindingObjects') :
              ignoredFindingObjects'[k].id = asyncCalls[c].findingId
         /\ \E w \in DOMAIN storeFile' :
              \E k \in 1..Len(storeFile'[w].records) :
                storeFile'[w].records[k].id = asyncCalls[c].findingId]_vars

(***************************************************************************)
(* Claims about un-ignoring and about workspaces (Spec)                    *)
(***************************************************************************)
\* no record of the list matches the finding, exactly or fuzzily
Unmatched(f) ==
  FindMatchingIgnoredFinding(EnhanceFinding(f), ignoredFindingObjects) = UndefinedId

\* C35: Un-ignore.  After records have been un-ignored (the tree refresh
\* included), every finding of the current results that no remaining record
\* matches is shown by the tree and is not ignored by id.
C35_UnignoreRestores ==
  lastOp[1] = "unignore" =>
    \A f \in SeqElems(results) :
      Unmatched(f) => f \in TreeFindings /\ ~ IsIgnored(decorator, f.id)

\* the records of the store of the workspace folder of a finding
OwnRecords(f) ==
  LET w == GetWorkspaceFolder(f.filePath)
  IN IF w \in DOMAIN ignoredFindingsByWorkspace
     THEN ignoredFindingsByWorkspace[w] ELSE <<>>

\* C36: Workspace isolation.  After a scan, a finding that no record of the
\* store of its own workspace folder matches is not suppressed: the tree and
\* the editors show it, whatever the stores of the other folders hold.
C36_WorkspaceIsolation ==
  JustScanned =>
    \A f \in SeqElems(results) :
      FindMatchingIgnoredFinding(EnhanceFinding(f), OwnRecords(f)) = UndefinedId
        => f \in TreeFindings /\ f \in EditorFindings

(***************************************************************************)
(* Claims about the results tree (SpecTree)                                *)
(***************************************************************************)
\* no update or refresh call is in flight
TreeAtRest == \A c \in 1..Len(asyncCalls) : asyncCalls[c].done

\* the stored findings that pass the ignore and the severity filters
Passing == GetFilteredResults(decorator, tree, results).kept

\* C37: Welcome view.  Once the update, refresh and toggle operations have
\* completed, the root of the tree shows the welcome items exactly when no
\* stored finding passes the ignore and severity filters, and pattern
\* groups whenever one does.
C37_WelcomeIffNothingPasses ==
  TreeAtRest =>
    /\ (GetChildren(decorator, tree, results) = "welcome") <=> (Len(Passing) = 0)
    /\ Len(Passing) > 0 => GetChildren(decorator, tree, results) = "patternGroups"

\* the same while only updates and refreshes have run, one at a time, with
\* the filters as they were at start-up
C37_WelcomeAfterUpdate ==
  (TreeAtRest /\ tree.showInfo /\ tree.showWarning /\ tree.showCritical
     /\ lastOp[1] = "filtered" /\ asyncCalls[Len(asyncCalls)].done
     /\ lastOp[2] = Len(asyncCalls)) =>
    /\ (GetChildren(decorator, tree, results) = "welcome") <=> (Len(Passing) = 0)
    /\ Len(Passing) > 0 => GetChildren(decorator, tree, results) = "patternGroups"

\* C38: Medium severity.  With the warning filter off no finding of
\* severity medium is returned by getFilteredResults; with it on, every
\* medium finding that is not ignored is returned.
C38_WarningFilterCoversMedium ==
  LET nonIgnored == SeqElems(GetFilteredFindings(decorator, results).kept)
  IN /\ ~ tree.showWarning =>
          \A f \in SeqElems(Passing) : f.severity # "medium"
     /\ tree.showWarning =>
          \A f \in nonIgnored : f.severity = "medium" => f \in SeqElems(Passing)

\* what the filter does for the severity warning itself
C38_WarningFilterCoversWarning ==
  LET nonIgnored == SeqElems(GetFilteredFindings(decorator, results).kept)
  IN /\ ~ tree.showWarning =>
          \A f \in SeqElems(Passing) : f.severity # "warning"
     /\ tree.showWarning =>
          \A f \in nonIgnored : f.severity = "warning" => f \in SeqElems(Passing)

(***************************************************************************)
(* Claims about the in-memory suppression state (SpecStores)               *)
(***************************************************************************)
\* how often a record occurs in a list
Occurrences(list, r) == Cardinality({k \in 1..Len(list) : list[k] = r})

\* how often a record occurs in the lists of the workspaces
RECURSIVE OccurrencesIn(_, _, _)
OccurrencesIn(byWorkspace, folders, r) ==
  IF folders = {} THEN 0
  ELSE LET w == CHOOSE x \in folders : TRUE
       IN Occurrences(byWorkspace[w], r)
            + OccurrencesIn(byWorkspace, folders \ {w}, r)

WorkspaceListRecords ==
  UNION {SeqElems(ignoredFindingsByWorkspace[w]) :
           w \in DOMAIN ignoredFindingsByWorkspace}

\* a record in the store of /v that carries the id of EarlierRecord (a
\* store file is a file of the folder and is copied along with it)
EarlierRecordV ==
  IgnoredFindingOf(EnhanceFinding(RawFinding(0 - 1, RuleP, FileVA, 1, LineS1)))

\* the store files found at start-up, both holding a record with the same
\* id: the store of /v is a copy of the store of /w, or has its own record
SharedIdStoreFiles ==
  {[w \in WorkspaceFolders |->
      IF w = WsW THEN FileWith(<<EarlierRecord>>) ELSE FileWith(vRecords)] :
     vRecords \in {<<EarlierRecord>>, <<EarlierRecordV>>}}

\* activation with such store files, then the commands of Spec
InitStores ==
  /\ storeFile \in SharedIdStoreFiles
  /\ results = <<>>
  /\ findingsByFilePath = LoadIgnoredFindings(storeFile).findingsByFilePath
  /\ ignoredFindings = LoadIgnoredFindings(storeFile).ignoredFindings
  /\ ignoredFindingObjects = LoadIgnoredFindings(storeFile).ignoredFindingObjects
  /\ ignoredFindingsByWorkspace = LoadIgnoredFindings(storeFile).ignoredFindingsByWorkspace
  /\ nextId = 1
  /\ lastOp = <<"activate">>
  /\ mFinding = Undefined
  /\ mIgnored = <<>>
  /\ mResult = UndefinedId
  /\ sStr1 = <<>>
  /\ sStr2 = <<>>
  /\ sResult = Undefined
  /\ run = IdleRun
  /\ picker = ClosedPicker
  /\ acknowledged = {}
  /\ NoUi
  /\ NoRunCall
  /\ NoCall

SpecStores == InitStores /\ [][Next]_vars

\* an un-ignore has acted while the stores shared an id
C39_UnignoreWithSharedId ==
  /\ lastOp[1] = "unignore"
  /\ \E r \in WorkspaceListRecords : r.id = EarlierRecord.id

\* C39: In-memory suppression state.  After every load, ignore and
\* un-ignore the global record list holds exactly the records of the
\* per-workspace lists (each as often as they hold it), and the id of every
\* record of a per-workspace list is in the ignored-id set.
C39_SuppressionStateConsistent ==
  /\ \A r \in Records \cup WorkspaceListRecords :
       Occurrences(ignoredFindingObjects, r)
         = OccurrencesIn(ignoredFindingsByWorkspace,
                         DOMAIN ignoredFindingsByWorkspace, r)
  /\ \A r \in WorkspaceListRecords : IsIgnored(decorator, r.id)

(***************************************************************************)
(* The identity string of two findings (SpecId)                            *)
(***************************************************************************)
\* the characters of the components: a letter and the separator
IdAlphabet == {"a", ":"}

IdStrings == UNION {[1..n -> IdAlphabet] : n \in 1..MaxIdLen}

\* findings of files of /w: a rule name of one character, a file name and
\* a matched text of up to MaxIdLen characters
IdFindings(id) ==
  {RawFinding(id, <<c>>, WsW \o <<"/">> \o name, 1, text) :
     c \in IdAlphabet, name \in IdStrings, text \in IdStrings}

InitId ==
  /\ \E f \in IdFindings(1) : \E g \in IdFindings(2) :
       call = [fn |-> "generatePersistentId", f |-> f, g |-> g]
  /\ returned = Undefined
  /\ NoRunCall
  /\ mFinding = Undefined
  /\ mIgnored = <<>>
  /\ mResult = UndefinedId
  /\ sStr1 = <<>>
  /\ sStr2 = <<>>
  /\ sResult = Undefined
  /\ results = <<>>
  /\ findingsByFilePath = <<>>
  /\ ignoredFindings = {}
  /\ ignoredFindingObjects = <<>>
  /\ ignoredFindingsByWorkspace = <<>>
  /\ storeFile = <<>>
  /\ nextId = 1
  /\ lastOp = <<"id">>
  /\ run = IdleRun
  /\ picker = ClosedPicker
  /\ acknowledged = {}
  /\ NoUi

\* generatePersistentId on both findings: the strings that are hashed and
\* the fingerprints
CallGeneratePersistentId ==
  /\ returned = Undefined
  /\ call.fn = "generatePersistentId"
  /\ returned' = [idStringF |-> IdString(call.f),
                  idStringG |-> IdString(call.g),
                  persistentIdF |-> GeneratePersistentId(call.f),
                  persistentIdG |-> GeneratePersistentId(call.g)]
  /\ UNCHANGED call
  /\ UNCHANGED <<sysVars, matchVars, simVars, runVars, uiVars, asyncVars, acknowledged>>

NextId == CallGeneratePersistentId

SpecId == InitId /\ [][NextId]_vars

\* the triple the identity string is built from
Triple(finding) ==
  <<finding.patternName, GetRelativeFilePath(finding.filePath),
    finding.matchedContent>>

HasColon(s) == \E i \in 1..Len(s) : s[i] = ":"

\* C40: Identity string.  Two findings that differ in rule name, relative
\* path or matched text never have the same identity string, also when
\* the components contain ":".
C40_IdStringInjective ==
  (returned # Undefined /\ Triple(call.f) # Triple(call.g))
    => returned.idStringF # returned.idStringG

\* the same when neither rule name nor relative path contains ":" (the
\* matched text may)
C40_InjectiveColonInTextOnly ==
  (/\ returned # Undefined
   /\ Triple(call.f) # Triple(call.g)
   /\ \A f \in {call.f, call.g} :
        ~ HasColon(Triple(f)[1]) /\ ~ HasColon(Triple(f)[2]))
    => returned.idStringF # returned.idStringG

\* two such findings with a ":" in their texts have been hashed
C40_ColonInTextOnlyCompared ==
  /\ returned # Undefined
  /\ Triple(call.f) # Triple(call.g)
  /\ \A f \in {call.f, call.g} :
       ~ HasColon(Triple(f)[1]) /\ ~ HasColon(Triple(f)[2])
         /\ HasColon(Triple(f)[3])

====
